---- MODULE Spec2Model ----
(***************************************************************************)
(* A model of nimsforestsmarttv: the embedded image server (server.go),    *)
(* the Renderer (renderer.go), the TV control protocol (tv.go) and SSDP    *)
(* discovery (discovery.go).                                               *)
(*                                                                         *)
(* Several next-state relations share one initial state (the state after   *)
(* NewImageServer / NewRenderer, before Discover has run):                 *)
(*   SpecStore   callers of ImageServer.Store racing on one server         *)
(*   SpecServer  one caller of Store and UpdateLatestFrame, and HTTP       *)
(*               clients of the server                                     *)
(*   SpecRead    one GET handler writing its response while Store and      *)
(*               UpdateLatestFrame go on                                   *)
(*   SpecRender  callers of the Renderer's operations racing on one        *)
(*               Renderer, against devices that answer or fail each call   *)
(*   SpecSeq     one caller issuing the Renderer's operations one after    *)
(*               another                                                   *)
(*   SpecTwo     one caller of a Renderer beside a second Renderer, on     *)
(*               two devices                                               *)
(*   SpecShow    one caller showing still images one after another until   *)
(*               Store's cleanup runs                                      *)
(*   SpecDiscover  one Discover pass against a network that delivers SSDP  *)
(*               responses and answers or fails the description fetches,   *)
(*               and a caller that may cancel the context                  *)
(*   SpecDiscoverFair  SpecDiscover where time passes and the goroutine    *)
(*               runs                                                      *)
(* SpecPure starts from every input of parseDeviceDescription, the         *)
(* setAVTransportURI functions and sendSOAP and applies the function.      *)
(***************************************************************************)
EXTENDS Integers, Sequences, FiniteSets, TLC

VARIABLES
    \* ImageServer (server.go:13-26)
    images,        \* s.images: path -> payload
    counter,       \* s.counter
    latestFrame,   \* s.latestFrame (Nil until the first UpdateLatestFrame)
    now,           \* the wall clock read by time.Now().UnixNano()
    \* callers of ImageServer.Store
    storeTh,       \* per caller: position in Store and its locals
    nStoreCalls,   \* Store calls begun
    returned,      \* the URLs Store has returned
    nReturned,     \* Store calls that have returned
    evicted,       \* the paths Store's cleanup has deleted
    \* Renderer (renderer.go:13-22) and the callers of its operations
    rmu,           \* r.mu: 0 when free, else the caller holding it
    playingTVs,    \* r.playingTVs: the control URLs mapped to true
    th,            \* per caller: position in the operation and its locals
    nCalls,        \* Renderer operations begun
    interleaved,   \* a call took a step after another call stepped in between
    hist,          \* the calls that have returned, in the order they returned
    otherPlayingTVs,  \* r.playingTVs of a second Renderer
    \* Discover (discovery.go:27-92), one pass
    dpc,           \* position in Discover
    ctxDone,       \* the caller's context is cancelled
    seen,          \* seen: the LOCATION values marked
    tvs,           \* tvs: the devices accumulated
    cur,           \* resp.Location of the response being handled
    ret,           \* what Discover returned
    sock,          \* the datagrams the socket holds, not yet read
    expired,       \* the socket's read deadline has passed
    nArrived,      \* datagrams that have arrived at the socket
    lastRead,      \* how the last ReadFromUDP ended
    events,        \* per datagram read: the datagram and what became of it
    \* clients of the image server's HTTP side (server.go:51-53)
    got,           \* the last GET and its response; n flips with each GET
    pushLog,       \* the payloads handed to UpdateLatestFrame, in order
    rd,            \* the handler of a GET in progress: its position and locals
    \* one call of a function without state
    fin,           \* the function and its arguments
    fout           \* its result, once it has returned

serverVars == <<images, counter, latestFrame, now>>
storeVars  == <<storeTh, nStoreCalls, returned, nReturned, evicted>>
rendVars   == <<rmu, playingTVs, th, nCalls, interleaved, hist>>
discVars   == <<dpc, ctxDone, seen, tvs, cur, ret, sock, expired, nArrived, lastRead,
               events>>
getVars    == <<got, pushLog, rd>>
pureVars   == <<fin, fout>>
vars == <<serverVars, storeVars, rendVars, discVars, getVars, pureVars, otherPlayingTVs>>

----------------------------------------------------------------------------
\* Bounds of the model

\* callers racing on ImageServer.Store
StoreCallers == {1, 2}
\* Store calls in one behaviour of SpecStore
MaxStoreCalls == 13
\* ticks of the wall clock
MaxTime == 1

\* payloads handed to Store in SpecStore
StorePayloads == {"jpegA"}

\* callers racing on one Renderer
Callers == {1, 2}
\* Renderer operations begun in one behaviour of SpecRender
MaxCalls == 2
\* DisplayJPEG calls begun in one behaviour of SpecShow
MaxShowCalls == 12
\* Renderer operations begun in one behaviour of SpecSeq
MaxSeqCalls == 4
\* datagrams that arrive at the socket in one Discover pass
MaxDatagrams == 3
\* UpdateLatestFrame calls in one behaviour of SpecServer
MaxPushes == 2
\* Store calls in one behaviour of SpecServer
MaxServerStores == 12
\* payloads handed to DisplayJPEG and DisplayJPEGStream
Payloads == {"jpegA"}
\* video URLs and titles handed to DisplayHLS
VideoURLs == {"https://host/stream.m3u8"}
Titles == {"", "My Test Stream"}

Nil == "nil"
\* no path: the local is unset, or the cleanup deleted nothing
NoPath == << >>

----------------------------------------------------------------------------
\* ImageServer

\* the cleanup threshold of Store: if len(s.images) > 10
Capacity == 10

\* localIP and port of the server, fixed at construction
ServerAddr == "http://192.168.1.10:40000"

\* a faulty counter, which wraps after 11
NextCounterNarrow(c) == (c % 11) + 1
\* atomic.AddUint64(&s.counter, 1)
NextCounter(c) == c + 1

\* a faulty path, built from the time alone
StorePathTimeOnly(id, t) == <<"img", 0, t>>
\* fmt.Sprintf("/img_%d_%d.jpg", id, time.Now().UnixNano())
StorePath(id, t) == <<"img", id, t>>

\* fmt.Sprintf("http://%s:%d%s", s.localIP, s.port, path)
StoreURL(path) == <<ServerAddr, path>>

\* the path component of a URL on this server (r.URL.Path of a GET on it)
URLPath(url) == url[2]

\* delete(s.images, k)
MapDelete(m, k) == [p \in DOMAIN m \ {k} |-> m[p]]

\* s.images[path] = jpegData
MapPut(m, k, v) == [p \in DOMAIN m \cup {k} |-> IF p = k THEN v ELSE m[p]]

\* the keys the cleanup loop of Store may delete: the first key of a map
\* iteration, which Go leaves unspecified, when len(s.images) > 10
EvictCandidates(m) == IF Cardinality(DOMAIN m) > Capacity THEN DOMAIN m ELSE {}

\* a faulty Store, whose cleanup takes the entry just inserted
StoreLockedEvictsOwn(m, k, path, data) ==
    IF k = NoPath THEN MapPut(m, path, data) ELSE m
\* the locked section of Store with the cleanup deleting key k (k = NoPath:
\* no cleanup)
StoreLocked(m, k, path, data) ==
    MapPut(IF k = NoPath THEN m ELSE MapDelete(m, k), path, data)

\* a faulty handleImage, which looks for the id of the path alone
HandleImageById(m, path) ==
    IF Len(path) = 3 /\ \E p \in DOMAIN m : p[2] = path[2]
    THEN [status |-> 200, body |-> m[CHOOSE p \in DOMAIN m : p[2] = path[2]]]
    ELSE [status |-> 404, body |-> Nil]
\* handleImage: the response to GET path
HandleImage(m, path) ==
    IF path \in DOMAIN m
    THEN [status |-> 200, body |-> m[path]]
    ELSE [status |-> 404, body |-> Nil]

\* the path of the streaming slot, "/stream.jpg"
StreamPath == <<"stream.jpg">>

\* a faulty handleStreamImage, which serves an empty body before any push
HandleStreamImageAlways(frame) == [status |-> 200, body |-> frame]
\* handleStreamImage: the response to GET /stream.jpg
HandleStreamImage(frame) ==
    IF frame = Nil
    THEN [status |-> 404, body |-> Nil]
    ELSE [status |-> 200, body |-> frame]

\* the server's fields as one record
ServerOf(m, c, frame) == [images |-> m, counter |-> c, latestFrame |-> frame]

\* a faulty UpdateLatestFrame, which draws an id as Store does
UpdateLatestFrameCounted(srv, data) ==
    [srv EXCEPT !.latestFrame = data, !.counter = NextCounter(@)]
\* UpdateLatestFrame
UpdateLatestFrame(srv, data) == [srv EXCEPT !.latestFrame = data]

\* A request path is lead followed by rest: lead is "/" for a path in
\* canonical form and "//" for one with a repeated slash, and rest is one of
\* the paths above. The mux of NewImageServer (lines 51-53) answers a path
\* that is not canonical with a redirect to its canonical form, hands
\* "/stream.jpg" to handleStreamImage and every other path to handleImage.
Request(lead, rest) == [lead |-> lead, rest |-> rest]
ServeHTTP(srv, req) ==
    IF req.lead # "/" THEN [status |-> 301, body |-> Nil]
    ELSE IF req.rest = StreamPath THEN HandleStreamImage(srv.latestFrame)
    ELSE HandleImage(srv.images, req.rest)

----------------------------------------------------------------------------
\* Strings

\* strings.HasPrefix, HasSuffix, Contains, TrimSuffix, and the index of the
\* first occurrence (0: none)
HasPrefix(s, p) == Len(s) >= Len(p) /\ SubSeq(s, 1, Len(p)) = p
HasSuffix(s, p) == Len(s) >= Len(p) /\ SubSeq(s, Len(s) - Len(p) + 1, Len(s)) = p
Contains(s, p) == \E i \in 1..(Len(s) - Len(p) + 1) : SubSeq(s, i, i + Len(p) - 1) = p
TrimSuffix(s, p) == IF HasSuffix(s, p) THEN SubSeq(s, 1, Len(s) - Len(p)) ELSE s
Index(s, p) ==
    LET at == {i \in 1..(Len(s) - Len(p) + 1) : SubSeq(s, i, i + Len(p) - 1) = p}
    IN  IF at = {} THEN 0 ELSE CHOOSE i \in at : \A j \in at : i <= j

\* strings.ReplaceAll(s, old, new) for an old of one character, which is how
\* escapeXML calls it: each character is replaced where it stands, so the
\* halves of s can be done apart
RECURSIVE ReplaceAll(_, _, _)
ReplaceAll(s, old, new) ==
    IF Len(s) = 0 THEN s
    ELSE IF Len(s) = 1 THEN (IF s = old THEN new ELSE s)
    ELSE ReplaceAll(SubSeq(s, 1, Len(s) \div 2), old, new)
            \o ReplaceAll(SubSeq(s, Len(s) \div 2 + 1, Len(s)), old, new)

----------------------------------------------------------------------------
\* TV control protocol (tv.go)

\* the devices the callers hold: TV records, immutable after discovery
TVs == { [Name |-> "TV Salon",   ControlURL |-> "http://192.168.1.20:9197/ctl"],
         [Name |-> "TV Bedroom", ControlURL |-> "http://192.168.1.21:9197/ctl"] }

\* what may come back from the POST of sendSOAP: no response at all (a
\* transport error, a timeout, a cancelled context), or a status and a body
\* with or without a <UPnPError element
Responses ==
    { [failed |-> TRUE,  status |-> 0,   upnpError |-> FALSE],
      [failed |-> FALSE, status |-> 200, upnpError |-> FALSE],
      [failed |-> FALSE, status |-> 200, upnpError |-> TRUE],
      [failed |-> FALSE, status |-> 500, upnpError |-> FALSE] }

\* a faulty sendSOAP, which looks at the status alone
SendSOAPStatusOnly(resp) ==
    IF resp.failed THEN "send SOAP request"
    ELSE IF resp.status # 200 THEN "SOAP error: HTTP"
    ELSE Nil
\* sendSOAP: Nil on success, else the error
SendSOAP(resp) ==
    IF resp.failed THEN "send SOAP request"
    ELSE IF resp.status # 200 THEN "SOAP error: HTTP"
    ELSE IF resp.upnpError THEN "UPnP error"
    ELSE Nil

\* bytes.Contains(respBody, []byte("<UPnPError"))
HasUPnPError(body) == Contains(body, "<UPnPError")

\* the response to the POST as sendSOAP looks at it: whether client.Do
\* returned one, its status, and whether its body holds a UPnP error
SOAPResponse(failed, status, body) ==
    [failed |-> failed, status |-> IF failed THEN 0 ELSE status,
     upnpError |-> ~failed /\ HasUPnPError(body)]

\* the requests the device receives: the SOAPAction and what the envelope
\* carries
\* setAVTransportURI(uri): an image photo item
SetURIRequest(uri) ==
    [action |-> "SetAVTransportURI", uri |-> uri,
     class |-> "object.item.imageItem.photo", title |-> "Image", mime |-> "image/jpeg"]

\* a faulty content type, which asks for the dot
VideoContentTypeDotted(uri) ==
    IF HasSuffix(uri, ".m3u8") \/ Contains(uri, ".m3u8") THEN "application/x-mpegURL"
    ELSE "video/mp2t"
\* setAVTransportURIForVideo, lines 139-145: the content type
VideoContentType(uri) ==
    IF HasSuffix(uri, ".m3u8") \/ Contains(uri, "m3u8") THEN "application/x-mpegURL"
    ELSE "video/mp2t"

\* setAVTransportURIForVideo(uri, title): a video item
SetVideoURIRequest(uri, title) ==
    [action |-> "SetAVTransportURI", uri |-> uri,
     class |-> "object.item.videoItem", title |-> title, mime |-> VideoContentType(uri)]

NoURL == << >>

\* escapeXML: "&", "<", ">" and the double quote are replaced, in this order
EscapeXML(s) ==
    ReplaceAll(ReplaceAll(ReplaceAll(ReplaceAll(s, "&", "&amp;"), "<", "&lt;"), ">", "&gt;"),
               "\"", "&quot;")

\* The DIDL-Lite metadata the three set-URI functions format, and the
\* envelope they format it into. The namespace declarations of the
\* DIDL-Lite and Envelope elements, the XML declaration and the white space
\* between the elements are left out; every other character is the code's.
DIDL(title, class, contentType, uri) ==
    "<DIDL-Lite><item id=\"1\" parentID=\"0\" restricted=\"1\"><dc:title>" \o title
       \o "</dc:title><upnp:class>" \o class
       \o "</upnp:class><res protocolInfo=\"http-get:*:" \o contentType \o ":*\">" \o uri
       \o "</res></item></DIDL-Lite>"

Envelope(action, element, uri, metadata) ==
    "<s:Envelope><s:Body><u:" \o action \o "><InstanceID>0</InstanceID><" \o element \o ">"
       \o uri \o "</" \o element \o "><" \o element \o "MetaData>" \o metadata
       \o "</" \o element \o "MetaData></u:" \o action \o "></s:Body></s:Envelope>"

\* setAVTransportURI, lines 101-116: the envelope
ImageEnvelope(uri) ==
    Envelope("SetAVTransportURI", "CurrentURI", uri,
             EscapeXML(DIDL("Image", "object.item.imageItem.photo", "image/jpeg", uri)))

\* setNextAVTransportURI, lines 183-195: the envelope
NextEnvelope(uri) ==
    Envelope("SetNextAVTransportURI", "NextURI", uri,
             EscapeXML(DIDL("Image", "object.item.imageItem.photo", "image/jpeg", uri)))

\* setAVTransportURIForVideo, lines 148-162: the envelope
VideoEnvelope(uri, title) ==
    Envelope("SetAVTransportURI", "CurrentURI", uri,
             EscapeXML(DIDL(title, "object.item.videoItem", VideoContentType(uri), uri)))

\* play()
PlayRequest == [action |-> "Play", uri |-> NoURL, class |-> "", title |-> "", mime |-> ""]

\* stop()
StopRequest == [action |-> "Stop", uri |-> NoURL, class |-> "", title |-> "", mime |-> ""]

----------------------------------------------------------------------------
\* Renderer (renderer.go)

\* StreamURL(): the fixed URL of the streaming slot
StreamURL == <<ServerAddr, StreamPath>>

\* the pixel images handed to Display; jpeg.Encode refuses an image 65536
\* or more pixels wide or high
Pixels == {"pix10x10", "pix70000x10"}

\* jpeg.Encode(&buf, rgb, &jpeg.Options{Quality: 85}): the JPEG bytes, or
\* Nil when the encoder returns an error
EncodeJPEG(img) == IF img = "pix10x10" THEN "jpegOfPix10x10" ELSE Nil

\* a faulty DisplayHLS, which passes the title on as it came
HLSTitleKept(title) == title
\* DisplayHLS, lines 145-147: the default title
HLSTitle(title) == IF title = "" THEN "HLS Stream" ELSE title

\* an error returned by an operation: fmt.Errorf(step + ": %w", cause)
NoErr == [step |-> "", cause |-> Nil]
\* a faulty wrapping, which loses the error
WrapErrLost(step, cause) == [step |-> "", cause |-> Nil]
WrapErr(step, cause) == [step |-> step, cause |-> cause]

\* the steps a call has taken: a Store or an UpdateLatestFrame on the image
\* server, or a SOAP request sent to the device with sendSOAP's result
ServerStep(name, url) ==
    [step |-> name,
     req |-> [action |-> "", uri |-> url, class |-> "", title |-> "", mime |-> ""],
     status |-> 0, res |-> Nil]
SOAPStep(request, resp) ==
    [step |-> "SOAP", req |-> request,
     status |-> IF resp.failed THEN 0 ELSE resp.status, res |-> SendSOAP(resp)]

NoTV == [Name |-> "", ControlURL |-> ""]

\* a caller between calls; arg is what the caller handed to DisplayHLS
NoArg == [url |-> NoURL, title |-> ""]
IdleCall ==
    [pc |-> "idle", op |-> "", tv |-> NoTV, data |-> Nil, url |-> NoURL, title |-> "",
     arg |-> NoArg, trace |-> << >>, err |-> NoErr, intr |-> FALSE]

----------------------------------------------------------------------------
\* SSDP discovery (discovery.go), what does not depend on the state

\* LOCATION values: the description documents of two devices
Loc1 == "http://192.168.1.20:9197/dmr.xml"
Loc2 == "http://192.168.1.21:9197/dmr.xml"
Locations == {Loc1, Loc2}

\* A datagram is the lines bufio's ReadString('\n') finds in it: eol tells
\* whether the line ends in a newline, colon whether it holds a ":", and key
\* and value are what stands before and after the first ":".
StatusLine == [key |-> "HTTP/1.1 200 OK", value |-> "", colon |-> FALSE, eol |-> TRUE]
BlankLine == [key |-> "", value |-> "", colon |-> FALSE, eol |-> TRUE]
Header(k, v) == [key |-> k, value |-> v, colon |-> TRUE, eol |-> TRUE]
Unterminated(l) == [l EXCEPT !.eol = FALSE]

\* the responses the network may deliver
Datagrams ==
    { [name |-> "tv1",
       lines |-> <<StatusLine, Header("LOCATION", " http://192.168.1.20:9197/dmr.xml"),
                   Header("SERVER", " Linux UPnP/1.0"), BlankLine>>],
      [name |-> "tv2",
       lines |-> <<StatusLine, Header("Location", "http://192.168.1.21:9197/dmr.xml"),
                   BlankLine>>],
      [name |-> "noLocation",
       lines |-> <<StatusLine, Header("SERVER", " Linux UPnP/1.0"), BlankLine>>],
      [name |-> "malformed",
       lines |-> << [key |-> "garbage", value |-> "", colon |-> FALSE, eol |-> FALSE] >>],
      [name |-> "truncated",
       lines |-> <<StatusLine,
                   Unterminated(Header("LOCATION", " http://192.168.1.20:9197/dmr.xml"))>>] }

\* strings.ToLower and strings.TrimSpace on the strings of the datagrams
ToLower(s) ==
    CASE s \in {"LOCATION", "Location"} -> "location"
      [] s = "SERVER" -> "server"
      [] s = "USN" -> "usn"
      [] OTHER -> s
TrimSpace(s) ==
    CASE s = " http://192.168.1.20:9197/dmr.xml" -> Loc1
      [] s = " Linux UPnP/1.0" -> "Linux UPnP/1.0"
      [] OTHER -> s

EmptyResponse == [Location |-> "", Server |-> "", USN |-> ""]

\* parseSSDP's header loop: stops at a line without newline or a blank
\* line, skips a line without ":", a later header overwrites an earlier one
RECURSIVE ParseHeaders(_, _)
ParseHeaders(ls, resp) ==
    IF ls = << >> \/ ~Head(ls).eol \/ Head(ls) = BlankLine
    THEN resp
    ELSE LET l == Head(ls)
             key == ToLower(TrimSpace(l.key))
             value == TrimSpace(l.value)
         IN  IF ~l.colon
             THEN ParseHeaders(Tail(ls), resp)
             ELSE ParseHeaders(Tail(ls),
                     CASE key = "location" -> [resp EXCEPT !.Location = value]
                       [] key = "server" -> [resp EXCEPT !.Server = value]
                       [] key = "usn" -> [resp EXCEPT !.USN = value]
                       [] OTHER -> resp)

\* parseSSDP: nothing is parsed when the status line has no newline
ParseSSDP(d) ==
    IF d.lines = << >> \/ ~Head(d.lines).eol
    THEN EmptyResponse
    ELSE ParseHeaders(Tail(d.lines), EmptyResponse)

\* fmt.Sscanf(s, "%d", &port) on a string of digits
DigitValue(c) ==
    CASE c = "0" -> 0 [] c = "1" -> 1 [] c = "2" -> 2 [] c = "3" -> 3 [] c = "4" -> 4
      [] c = "5" -> 5 [] c = "6" -> 6 [] c = "7" -> 7 [] c = "8" -> 8 [] c = "9" -> 9
RECURSIVE ScanInt(_)
ScanInt(s) ==
    IF s = "" THEN 0
    ELSE 10 * ScanInt(SubSeq(s, 1, Len(s) - 1)) + DigitValue(SubSeq(s, Len(s), Len(s)))

\* url.Parse of an absolute URL scheme://host[:port][/path]: Scheme, Host,
\* Hostname() and Port(); a blank in the host is an error
ParseURL(u) ==
    LET i == Index(u, "://")
        rest == SubSeq(u, i + 3, Len(u))
        j == Index(rest, "/")
        host == IF j = 0 THEN rest ELSE SubSeq(rest, 1, j - 1)
        k == Index(host, ":")
    IN  [ok |-> ~Contains(host, " "),
         Scheme |-> SubSeq(u, 1, i - 1),
         Host |-> host,
         Hostname |-> IF k = 0 THEN host ELSE SubSeq(host, 1, k - 1),
         Port |-> IF k = 0 THEN "" ELSE SubSeq(host, k + 1, Len(host))]

\* A device description as xml.Decode leaves it in deviceDescription
\* (tv.go:25-41), an absent element being the empty string; Garbage is a
\* body that is not XML.
Garbage == [decodes |-> FALSE, URLBase |-> "", FriendlyName |-> "", ServiceList |-> << >>]
Description(base, name, services) ==
    [decodes |-> TRUE, URLBase |-> base, FriendlyName |-> name, ServiceList |-> services]
Service(type, control) == [ServiceType |-> type, ControlURL |-> control]

AVTransport1 == "urn:schemas-upnp-org:service:AVTransport:1"
RenderingControl1 == "urn:schemas-upnp-org:service:RenderingControl:1"

\* the descriptions the devices of Locations serve
MediaRendererDesc ==
    Description("", "Smart TV",
                << Service(RenderingControl1, "/rcs"), Service(AVTransport1, "/ctl") >>)
MediaServerDesc ==
    Description("", "NAS", << Service("urn:schemas-upnp-org:service:ContentDirectory:1", "/cds") >>)

\* what the GET of a description document may come to: no response, a
\* status other than 200, or 200 with a body that does not decode, that
\* decodes to a device without AVTransport service, or to a media renderer
HTTPResults ==
    { [failed |-> TRUE, status |-> 0, body |-> Garbage],
      [failed |-> FALSE, status |-> 404, body |-> Garbage],
      [failed |-> FALSE, status |-> 200, body |-> Garbage],
      [failed |-> FALSE, status |-> 200, body |-> MediaServerDesc],
      [failed |-> FALSE, status |-> 200, body |-> MediaRendererDesc] }

NoDevice == [Name |-> "", IP |-> "", Port |-> 0, ControlURL |-> "", BaseURL |-> ""]

\* a faulty test of the service type, for equality
IsAVTransportExact(type) == type = "AVTransport"
\* strings.Contains(svc.ServiceType, "AVTransport")
IsAVTransport(type) == Contains(type, "AVTransport")

\* lines 64-70: the controlURL of the first service whose type contains
\* "AVTransport", "" when there is none
RECURSIVE FindControlURL(_)
FindControlURL(services) ==
    IF services = << >> THEN ""
    ELSE IF IsAVTransport(Head(services).ServiceType) THEN Head(services).ControlURL
    ELSE FindControlURL(Tail(services))

\* lines 56-61: the base URL
BaseURLOf(desc, locURL) ==
    TrimSuffix(IF desc.URLBase = "" THEN locURL.Scheme \o "://" \o locURL.Host
               ELSE desc.URLBase, "/")

\* lines 76-82: the full control URL
FullControlURL(baseURL, controlURL) ==
    IF HasPrefix(controlURL, "http") THEN controlURL
    ELSE IF HasPrefix(controlURL, "/") THEN baseURL \o controlURL
    ELSE baseURL \o "/" \o controlURL

\* parseDeviceDescription
ParseDeviceDescription(desc, loc) ==
    LET locURL == ParseURL(loc)
        baseURL == BaseURLOf(desc, locURL)
        controlURL == FindControlURL(desc.ServiceList)
    IN  IF ~desc.decodes THEN [tv |-> NoDevice, err |-> "parse device description"]
        ELSE IF ~locURL.ok THEN [tv |-> NoDevice, err |-> "parse location URL"]
        ELSE IF controlURL = "" THEN [tv |-> NoDevice, err |-> "no AVTransport service found"]
        ELSE [tv |-> [Name |-> desc.FriendlyName,
                      IP |-> locURL.Hostname,
                      Port |-> IF locURL.Port # "" THEN ScanInt(locURL.Port) ELSE 80,
                      ControlURL |-> FullControlURL(baseURL, controlURL),
                      BaseURL |-> baseURL],
              err |-> Nil]


\* fetchTVInfo
FetchTVInfo(res, loc) ==
    IF res.failed THEN [tv |-> NoDevice, err |-> "transport"]
    ELSE IF res.status # 200 THEN [tv |-> NoDevice, err |-> "HTTP"]
    ELSE ParseDeviceDescription(res.body, loc)

\* fetchTVInfo for the LOCATION values and the results of the model
FetchedFrom == [loc \in Locations |-> [res \in HTTPResults |-> FetchTVInfo(res, loc)]]

\* the TV record the media renderer at loc decodes to
DeviceAt(loc) == FetchedFrom[loc][[failed |-> FALSE, status |-> 200, body |-> MediaRendererDesc]].tv

\* what opening the socket and sending the search may come to
SetupResults == {Nil, "resolve SSDP address", "listen UDP", "send SSDP search"}

CtxErr == "context canceled"

NoReturn == [tvs |-> << >>, err |-> Nil]

\* a faulty Discover, which returns the read error that ended the loop
AfterLoopErrKept(kind) == kind
\* line 91, reached by the break of lines 62-68: return tvs, nil
AfterLoopErr(kind) == Nil

\* a faulty Discover, which marks nothing as seen
MarkSeenNot(s, loc) == s
\* seen[resp.Location] = true
MarkSeen(s, loc) == s \cup {loc}

\* no GET answered yet
NoResponse == [n |-> 0, req |-> Request("/", NoPath), status |-> 0, body |-> Nil]

\* no handler is running; ok and data are the handler's locals, sent is what
\* it has written of the body, and pushes0 counts the UpdateLatestFrame
\* calls that had returned when it began
IdleRead ==
    [pc |-> "idle", req |-> Request("/", NoPath), ok |-> FALSE, data |-> Nil, sent |-> "",
     pushes0 |-> 0]

\* no function called; no result yet
NoInput == [fn |-> "none"]
Pending == [done |-> FALSE, val |-> Nil]

----------------------------------------------------------------------------
\* Initial state: a freshly constructed server and Renderer, Discover not yet called

IdleStore == [pc |-> "idle", id |-> 0, path |-> NoPath, data |-> Nil]

InitProgram ==
    /\ images = << >>
    /\ counter = 0
    /\ latestFrame = Nil
    /\ now = 0
    /\ storeTh = [t \in StoreCallers |-> IdleStore]
    /\ nStoreCalls = 0
    /\ returned = {}
    /\ nReturned = 0
    /\ evicted = {}
    /\ rmu = 0
    /\ playingTVs = {}
    /\ otherPlayingTVs = {}
    /\ th = [t \in Callers |-> IdleCall]
    /\ nCalls = 0
    /\ interleaved = FALSE
    /\ hist = << >>
    /\ dpc = "start"
    /\ ctxDone = FALSE
    /\ seen = {}
    /\ tvs = << >>
    /\ cur = ""
    /\ ret = NoReturn
    /\ sock = << >>
    /\ expired = FALSE
    /\ nArrived = 0
    /\ lastRead = "none"
    /\ events = << >>
    /\ got = NoResponse
    /\ pushLog = << >>
    /\ rd = IdleRead

\* no function is being called
Init == InitProgram /\ fin = NoInput /\ fout = Pending

----------------------------------------------------------------------------
\* Callers of ImageServer.Store (SpecStore)

\* the wall clock advances
Tick ==
    /\ now < MaxTime
    /\ now' = now + 1
    /\ UNCHANGED <<images, counter, latestFrame, storeVars, rendVars, discVars, getVars,
                   pureVars, otherPlayingTVs>>

\* Store, lines 114-115: id := atomic.AddUint64(&s.counter, 1), then the path
\* from the id and the clock
StoreBegin(t, data) ==
    /\ storeTh[t].pc = "idle"
    /\ nStoreCalls < MaxStoreCalls
    /\ counter' = NextCounter(counter)
    /\ storeTh' = [storeTh EXCEPT ![t] =
                     [pc |-> "lock", id |-> counter',
                      path |-> StorePath(counter', now), data |-> data]]
    /\ nStoreCalls' = nStoreCalls + 1
    /\ UNCHANGED <<images, latestFrame, now, returned, nReturned, evicted, rendVars,
                   discVars, getVars, pureVars, otherPlayingTVs>>

\* Store, lines 117-126: under s.mu the cleanup, which deletes whichever key
\* the map iteration yields first, and the insertion
StoreInsert(path, data) ==
    \E k \in (IF EvictCandidates(images) = {} THEN {NoPath}
                                               ELSE EvictCandidates(images)) :
       /\ images' = StoreLocked(images, k, path, data)
       /\ evicted' = evicted \cup ({k} \ {NoPath})
       /\ returned' = returned \cup {StoreURL(path)}
       /\ nReturned' = nReturned + 1

\* Store, lines 117-128: the locked section, then the URL is returned
StoreCommit(t) ==
    /\ storeTh[t].pc = "lock"
    /\ StoreInsert(storeTh[t].path, storeTh[t].data)
    /\ storeTh' = [storeTh EXCEPT ![t] = IdleStore]
    /\ UNCHANGED <<counter, latestFrame, now, nStoreCalls, rendVars, discVars, getVars,
                   pureVars, otherPlayingTVs>>

NextStore ==
    \/ Tick
    \/ \E t \in StoreCallers, d \in StorePayloads : StoreBegin(t, d)
    \/ \E t \in StoreCallers : StoreCommit(t)

SpecStore == Init /\ [][NextStore]_vars

----------------------------------------------------------------------------
\* Callers and HTTP clients of one ImageServer (SpecServer)

\* the payloads handed to UpdateLatestFrame: a nil slice among them
Frames == {Nil, "frameA", "frameB"}

\* the payload of the next Store call: the calls alternate between two
StorePayloadAt(c) == IF c % 2 = 0 THEN "jpegA" ELSE "jpegB"

\* paths no Store call has made
UnknownPaths == { <<"img", 1, 7>>, <<"favicon.ico">> }

\* UpdateLatestFrame(d), called directly
PushFrame(d) ==
    /\ Len(pushLog) < MaxPushes
    /\ LET srv == UpdateLatestFrame(ServerOf(images, counter, latestFrame), d)
       IN  /\ images' = srv.images
           /\ counter' = srv.counter
           /\ latestFrame' = srv.latestFrame
    /\ pushLog' = Append(pushLog, d)
    /\ UNCHANGED <<now, storeVars, rendVars, discVars, got, rd, pureVars, otherPlayingTVs>>

\* a client's GET of the path lead rest is answered
Get(lead, rest) ==
    LET req == Request(lead, rest)
        res == ServeHTTP(ServerOf(images, counter, latestFrame), req)
    IN  /\ got' = [n |-> 1 - got.n, req |-> req, status |-> res.status, body |-> res.body]
        /\ UNCHANGED <<serverVars, storeVars, rendVars, discVars, pushLog, rd, pureVars,
                       otherPlayingTVs>>

\* Store(d), called by the one caller of this specification
ServerStore(d) ==
    /\ nStoreCalls < MaxServerStores
    /\ StoreBegin(1, d)

\* the paths clients ask for: the stream path, the URLs the first, the second
\* and the latest Store call returned, and paths no Store call has made
ProbeIds == {1, 2, counter}
RequestPaths ==
    {StreamPath} \cup UnknownPaths
       \cup {p \in DOMAIN images \cup evicted : p[2] \in ProbeIds}

NextServer ==
    \/ ServerStore(StorePayloadAt(counter))
    \/ StoreCommit(1)
    \/ \E d \in Frames : PushFrame(d)
    \/ \E lead \in {"/", "//"}, rest \in RequestPaths : Get(lead, rest)

SpecServer == Init /\ [][NextServer]_vars

----------------------------------------------------------------------------
\* One GET at a time, step by step, beside the callers of Store and
\* UpdateLatestFrame (SpecRead)

\* the payloads handed to UpdateLatestFrame in this specification: their
\* halves differ, so that a body put together from two of them is neither
ReadFrames == {"frameA", "Bframe"}

\* the halves in which w.Write(data) sends the body
FirstHalf(data) == SubSeq(data, 1, Len(data) \div 2)
SecondHalf(data) == SubSeq(data, Len(data) \div 2 + 1, Len(data))

\* handleStreamImage lines 70-72, handleImage lines 95-97: under the read
\* lock the handler copies the slice, and for a stored path whether it is there
Snapshot(srv, req) ==
    IF req.rest = StreamPath
    THEN [ok |-> srv.latestFrame # Nil, data |-> srv.latestFrame]
    ELSE IF req.rest \in DOMAIN srv.images
    THEN [ok |-> TRUE, data |-> srv.images[req.rest]]
    ELSE [ok |-> FALSE, data |-> Nil]

\* the handler of GET rest begins: the mux has chosen it, and it reads
\* under the lock
ReadBegin(rest) ==
    /\ rd.pc \in {"idle", "done"}
    /\ LET snap == Snapshot(ServerOf(images, counter, latestFrame), Request("/", rest))
       IN  rd' = [pc |-> "respond", req |-> Request("/", rest), ok |-> snap.ok,
                  data |-> snap.data, sent |-> "", pushes0 |-> Len(pushLog)]
    /\ UNCHANGED <<serverVars, storeVars, rendVars, discVars, got, pushLog, pureVars,
                   otherPlayingTVs>>

\* lines 74-77, 99-103: nothing there, 404
ReadNotFound ==
    /\ rd.pc = "respond"
    /\ ~rd.ok
    /\ rd' = [rd EXCEPT !.pc = "done"]
    /\ got' = [n |-> 1 - got.n, req |-> rd.req, status |-> 404, body |-> Nil]
    /\ UNCHANGED <<serverVars, storeVars, rendVars, discVars, pushLog, pureVars, otherPlayingTVs>>

\* lines 79-87, 105-108: the headers and the first half of the body go out,
\* the lock not held
ReadWriteFirst ==
    /\ rd.pc = "respond"
    /\ rd.ok
    /\ rd' = [rd EXCEPT !.pc = "rest", !.sent = FirstHalf(rd.data)]
    /\ UNCHANGED <<serverVars, storeVars, rendVars, discVars, got, pushLog, pureVars,
                   otherPlayingTVs>>

\* a faulty handler, which reads the slot again for the rest of the body
ReadWriteRestReread ==
    /\ rd.pc = "rest"
    /\ rd' = [rd EXCEPT !.pc = "done"]
    /\ got' = [n |-> 1 - got.n, req |-> rd.req, status |-> 200,
               body |-> rd.sent \o SecondHalf(
                  Snapshot(ServerOf(images, counter, latestFrame), rd.req).data)]
    /\ UNCHANGED <<serverVars, storeVars, rendVars, discVars, pushLog, pureVars, otherPlayingTVs>>
\* the rest of the body goes out and the handler returns
ReadWriteRest ==
    /\ rd.pc = "rest"
    /\ rd' = [rd EXCEPT !.pc = "done"]
    /\ got' = [n |-> 1 - got.n, req |-> rd.req, status |-> 200,
               body |-> rd.sent \o SecondHalf(rd.data)]
    /\ UNCHANGED <<serverVars, storeVars, rendVars, discVars, pushLog, pureVars, otherPlayingTVs>>

\* the paths read: the stream path and the URLs the first and the latest
\* Store call returned
ReadPaths ==
    {StreamPath} \cup {p \in DOMAIN images \cup evicted : p[2] \in {1, counter}}

NextRead ==
    \/ ServerStore(StorePayloadAt(counter))
    \/ StoreCommit(1)
    \/ \E d \in ReadFrames : PushFrame(d)
    \/ \E rest \in ReadPaths : ReadBegin(rest)
    \/ ReadNotFound
    \/ ReadWriteFirst
    \/ ReadWriteRest

SpecRead == Init /\ [][NextRead]_vars

----------------------------------------------------------------------------
\* Callers of the Renderer's operations (SpecRender, SpecSeq)

Busy(t) == th[t].pc \notin {"idle", "done"}

\* caller t takes a step on the image server or sends a SOAP request: every
\* other call that has taken a step and has not returned is stepped into
StepInto(t, new) ==
    [u \in Callers |->
        IF u = t THEN new
        ELSE IF Busy(u) /\ th[u].trace # << >> THEN [th[u] EXCEPT !.intr = TRUE]
        ELSE th[u]]

\* the calls that have returned, with the call c of this step once it has
Record(c) == IF c.pc = "done" THEN Append(hist, c) ELSE hist

\* a new call of caller t, the limit-th at most of the behaviour
NewCall(t, limit) ==
    /\ ~Busy(t)
    /\ nCalls < limit
    /\ nCalls' = nCalls + 1

\* DisplayJPEG, lines 82-86: r.mu is taken and the image stored; Store is
\* lines 113-129 of server.go
BeginDisplayJPEG(t, limit, op, tv, data) ==
    /\ NewCall(t, limit)
    /\ rmu = 0
    /\ rmu' = t
    /\ counter' = NextCounter(counter)
    /\ nStoreCalls' = nStoreCalls + 1
    /\ StoreInsert(StorePath(counter', now), data)
    /\ th' = StepInto(t, [IdleCall EXCEPT
                 !.pc = "setURI", !.op = op, !.tv = tv, !.data = data,
                 !.url = StoreURL(StorePath(counter', now)),
                 !.trace = << ServerStep("Store", StoreURL(StorePath(counter', now))) >>])
    /\ UNCHANGED <<latestFrame, now, storeTh, playingTVs, interleaved, hist, discVars,
                   getVars, pureVars, otherPlayingTVs>>

\* Display, lines 61-78: the image is encoded and handed to DisplayJPEG; an
\* encoding error is returned at once
BeginDisplay(t, limit, tv, img) ==
    IF EncodeJPEG(img) = Nil
    THEN /\ NewCall(t, limit)
         /\ th' = [th EXCEPT ![t] = [IdleCall EXCEPT
                      !.pc = "done", !.op = "Display", !.tv = tv,
                      !.err = WrapErr("encode JPEG", "jpeg: image is too large to encode")]]
         /\ hist' = Record(th'[t])
         /\ UNCHANGED <<serverVars, storeVars, rmu, playingTVs, interleaved, discVars,
                        getVars, pureVars, otherPlayingTVs>>
    ELSE BeginDisplayJPEG(t, limit, "Display", tv, EncodeJPEG(img))

\* DisplayJPEGStream, line 105: UpdateLatestFrame, before r.mu is taken
BeginDisplayJPEGStream(t, limit, tv, data) ==
    /\ NewCall(t, limit)
    /\ latestFrame' = UpdateLatestFrame(ServerOf(images, counter, latestFrame), data).latestFrame
    /\ pushLog' = Append(pushLog, data)
    /\ th' = StepInto(t, [IdleCall EXCEPT
                 !.pc = "streamLock", !.op = "DisplayJPEGStream", !.tv = tv,
                 !.data = data,
                 !.trace = << ServerStep("UpdateLatestFrame", StreamURL) >>])
    /\ UNCHANGED <<images, counter, now, storeVars, rmu, playingTVs, interleaved, hist,
                   discVars, got, rd, pureVars, otherPlayingTVs>>

\* a faulty DisplayJPEGStream, which goes on without waiting for r.mu
StreamLockNoWait(t) ==
    /\ th[t].pc = "streamLock"
    /\ th' = [th EXCEPT ![t].pc = "setURI", ![t].url = StreamURL]
    /\ rmu' = t
    /\ UNCHANGED <<serverVars, storeVars, playingTVs, nCalls, interleaved, hist, discVars,
                   getVars, pureVars, otherPlayingTVs>>
\* DisplayJPEGStream, lines 108-113 and 123: r.mu is taken; a device already
\* marked playing gets nothing more and the call returns
StreamLock(t) ==
    /\ th[t].pc = "streamLock"
    /\ rmu = 0
    /\ IF th[t].tv.ControlURL \in playingTVs
       THEN /\ th' = [th EXCEPT ![t].pc = "done"]
            /\ rmu' = 0
       ELSE /\ th' = [th EXCEPT ![t].pc = "setURI", ![t].url = StreamURL]
            /\ rmu' = t
    /\ hist' = Record(th'[t])
    /\ UNCHANGED <<serverVars, storeVars, playingTVs, nCalls, interleaved, discVars,
                   getVars, pureVars, otherPlayingTVs>>

\* DisplayHLS, lines 141-147: r.mu is taken and the title defaulted
BeginDisplayHLS(t, limit, tv, url, title) ==
    /\ NewCall(t, limit)
    /\ rmu = 0
    /\ rmu' = t
    /\ th' = [th EXCEPT ![t] = [IdleCall EXCEPT
                 !.pc = "setURI", !.op = "DisplayHLS", !.tv = tv,
                 !.arg = [url |-> url, title |-> title],
                 !.url = url, !.title = HLSTitle(title)]]
    /\ UNCHANGED <<serverVars, storeVars, playingTVs, interleaved, hist, discVars,
                   getVars, pureVars, otherPlayingTVs>>

\* the wrapping of a failed set-URI step: renderer.go lines 90, 115, 151
SetURIErr(op) ==
    IF op = "DisplayJPEGStream" THEN "set stream URI"
    ELSE IF op = "DisplayHLS" THEN "set HLS URI"
    ELSE "set URI"

\* the wrapping of a failed play step: renderer.go lines 94, 118, 156
PlayErr(op) ==
    IF op = "DisplayJPEGStream" THEN "play stream"
    ELSE IF op = "DisplayHLS" THEN "play HLS"
    ELSE "play"

\* a faulty set-URI step, which always names the stream URL
SetURIOfStream(c) == SetURIRequest(StreamURL)
\* the request of the set-URI step: setAVTransportURI (lines 89, 114) or
\* setAVTransportURIForVideo (line 150)
SetURIOf(c) ==
    IF c.op = "DisplayHLS" THEN SetVideoURIRequest(c.url, c.title)
    ELSE SetURIRequest(c.url)

\* a faulty set-URI step, which goes on to play whatever the result
AfterSetURIPlayAnyway(c, res) == [c EXCEPT !.pc = "play"]
\* what a caller does once the set-URI step has returned: on an error the
\* operation returns it (the deferred unlock releases r.mu), else it goes on
\* to play
AfterSetURI(c, res) ==
    IF res = Nil THEN [c EXCEPT !.pc = "play"]
    ELSE [c EXCEPT !.pc = "done", !.err = WrapErr(SetURIErr(c.op), res)]

\* DisplayJPEG lines 89-91, DisplayJPEGStream lines 114-116, DisplayHLS lines
\* 150-152: the set-URI request is sent under r.mu
SendSetURI(t, responses) ==
    /\ th[t].pc = "setURI"
    /\ rmu = t
    /\ \E resp \in responses :
         LET res  == SendSOAP(resp)
             sent == [th[t] EXCEPT !.trace = Append(@, SOAPStep(SetURIOf(th[t]), resp))]
             next == AfterSetURI(sent, res)
         IN /\ th' = StepInto(t, next)
            /\ rmu' = IF next.pc = "done" THEN 0 ELSE t
    /\ hist' = Record(th'[t])
    /\ interleaved' = (interleaved \/ th[t].intr)
    /\ UNCHANGED <<serverVars, storeVars, playingTVs, nCalls, discVars, getVars, pureVars,
                   otherPlayingTVs>>

\* a faulty DisplayJPEGStream, which sets the entry also after a failure
MarkPlayingAlways(playing, c, res) ==
    IF c.op = "DisplayJPEGStream" THEN playing \cup {c.tv.ControlURL} ELSE playing
\* a faulty renderer, which sets the entry after every successful play
MarkPlayingAnyOp(playing, c, res) ==
    IF res = Nil THEN playing \cup {c.tv.ControlURL} ELSE playing
\* a faulty DisplayJPEGStream, which never sets the entry
MarkPlayingNever(playing, c, res) == playing
\* what DisplayJPEGStream does to r.playingTVs once play has returned: line 120
MarkPlaying(playing, c, res) ==
    IF c.op = "DisplayJPEGStream" /\ res = Nil
    THEN playing \cup {c.tv.ControlURL}
    ELSE playing

\* DisplayJPEG lines 93-97, DisplayJPEGStream lines 117-123, DisplayHLS lines
\* 155-159: play is sent under r.mu and the operation returns
SendPlay(t, responses) ==
    /\ th[t].pc = "play"
    /\ rmu = t
    /\ \E resp \in responses :
         LET res == SendSOAP(resp)
         IN /\ th' = StepInto(t, [th[t] EXCEPT
                        !.pc = "done",
                        !.trace = Append(@, SOAPStep(PlayRequest, resp)),
                        !.err = IF res = Nil THEN NoErr
                                ELSE WrapErr(PlayErr(th[t].op), res)])
            /\ playingTVs' = MarkPlaying(playingTVs, th[t], res)
    /\ rmu' = 0
    /\ hist' = Record(th'[t])
    /\ interleaved' = (interleaved \/ th[t].intr)
    /\ UNCHANGED <<serverVars, storeVars, nCalls, discVars, getVars, pureVars, otherPlayingTVs>>

\* a faulty Stop, which leaves the entry
ClearPlayingNever(playing, tv) == playing
\* a faulty Stop, which empties the table
ClearPlayingAll(playing, tv) == {}
\* what Stop does to r.playingTVs: line 171
ClearPlaying(playing, tv) == playing \ {tv.ControlURL}

\* a faulty Stop, which returns at once for a device without an entry
BeginStopIfPlaying(t, limit, tv) ==
    /\ NewCall(t, limit)
    /\ rmu = 0
    /\ playingTVs' = ClearPlaying(playingTVs, tv)
    /\ th' = [th EXCEPT ![t] = [IdleCall EXCEPT
                 !.pc = IF tv.ControlURL \in playingTVs THEN "stop" ELSE "done",
                 !.op = "Stop", !.tv = tv]]
    /\ hist' = Record(th'[t])
    /\ UNCHANGED <<serverVars, storeVars, rmu, interleaved, discVars, getVars, pureVars,
                   otherPlayingTVs>>
\* Stop, lines 170-172: under r.mu the device's entry is deleted, and r.mu
\* is released
BeginStop(t, limit, tv) ==
    /\ NewCall(t, limit)
    /\ rmu = 0
    /\ playingTVs' = ClearPlaying(playingTVs, tv)
    /\ th' = [th EXCEPT ![t] = [IdleCall EXCEPT
                 !.pc = "stop", !.op = "Stop", !.tv = tv]]
    /\ UNCHANGED <<serverVars, storeVars, rmu, interleaved, hist, discVars, getVars,
                   pureVars, otherPlayingTVs>>

\* Stop, line 173: tv.stop is sent, r.mu not held, and its error returned
SendStop(t, responses) ==
    /\ th[t].pc = "stop"
    /\ \E resp \in responses :
         LET res == SendSOAP(resp)
         IN th' = StepInto(t, [th[t] EXCEPT
                      !.pc = "done",
                      !.trace = Append(@, SOAPStep(StopRequest, resp)),
                      !.err = IF res = Nil THEN NoErr ELSE WrapErr("", res)])
    /\ hist' = Record(th'[t])
    /\ interleaved' = (interleaved \/ th[t].intr)
    /\ UNCHANGED <<serverVars, storeVars, rmu, playingTVs, nCalls, discVars, getVars, pureVars,
                   otherPlayingTVs>>

\* one step of caller t, its inputs drawn from the sets of in
CallerStep(t, in) ==
    \/ \E tv \in in.tvs, d \in in.payloads :
          BeginDisplayJPEG(t, in.maxCalls, "DisplayJPEG", tv, d)
    \/ \E tv \in in.tvs, img \in in.pixels : BeginDisplay(t, in.maxCalls, tv, img)
    \/ \E tv \in in.tvs, d \in in.payloads : BeginDisplayJPEGStream(t, in.maxCalls, tv, d)
    \/ StreamLock(t)
    \/ \E tv \in in.tvs, u \in in.videos, ti \in in.titles :
          BeginDisplayHLS(t, in.maxCalls, tv, u, ti)
    \/ SendSetURI(t, in.responses)
    \/ SendPlay(t, in.responses)
    \/ \E tv \in in.tvs : BeginStop(t, in.maxCalls, tv)
    \/ SendStop(t, in.responses)

\* SpecRender: the callers race, on two devices
RenderInputs ==
    [maxCalls |-> MaxCalls, tvs |-> TVs, payloads |-> Payloads, pixels |-> Pixels,
     videos |-> VideoURLs, titles |-> {""}, responses |-> Responses]

NextRender == \E t \in Callers : CallerStep(t, RenderInputs)

SpecRender == Init /\ [][NextRender]_vars

\* SpecSeq: caller 1 alone, one call after another on one device, which
\* answers 200 or 500
TheTV == CHOOSE tv \in TVs : tv.Name = "TV Salon"

SeqInputs ==
    [maxCalls |-> MaxSeqCalls, tvs |-> {TheTV}, payloads |-> {"jpegA"},
     pixels |-> Pixels, videos |-> VideoURLs, titles |-> Titles,
     responses |-> {r \in Responses : ~r.failed /\ ~r.upnpError}]

NextSeq == CallerStep(1, SeqInputs)

SpecSeq == Init /\ [][NextSeq]_vars

\* SpecTwo: two Renderers, each from its own NewRenderer (lines 35-57) and so
\* with its own playingTVs and its own image server. Caller 1 uses the first
\* as in SpecSeq, on both devices; on the second a DisplayJPEGStream or a
\* Stop runs from call to return in one step.
OtherStream(tv, resp) ==
    /\ otherPlayingTVs' =
          IF tv.ControlURL \in otherPlayingTVs THEN otherPlayingTVs
          ELSE MarkPlaying(otherPlayingTVs, [op |-> "DisplayJPEGStream", tv |-> tv],
                           SendSOAP(resp))
    /\ UNCHANGED <<serverVars, storeVars, rendVars, discVars, getVars, pureVars>>

OtherStop(tv) ==
    /\ otherPlayingTVs' = ClearPlaying(otherPlayingTVs, tv)
    /\ UNCHANGED <<serverVars, storeVars, rendVars, discVars, getVars, pureVars>>

\* the device answers 200 without a UPnP error, or the request fails
TwoResponses == {r \in Responses : r.failed \/ (r.status = 200 /\ ~r.upnpError)}

TwoInputs ==
    [maxCalls |-> MaxCalls, tvs |-> TVs, payloads |-> Payloads, pixels |-> {"pix10x10"},
     videos |-> VideoURLs, titles |-> {""}, responses |-> TwoResponses]

NextTwo ==
    \/ CallerStep(1, TwoInputs)
    \/ \E tv \in TVs, resp \in TwoResponses : OtherStream(tv, resp)
    \/ \E tv \in TVs : OtherStop(tv)

SpecTwo == Init /\ [][NextTwo]_vars

\* SpecShow: one caller showing one still image after another on one device
\* that answers 200, the payloads alternating, until the store of the
\* Renderer's server is past its cleanup threshold; the clock may advance
\* between any two steps.
ShowResponses == {r \in Responses : ~r.failed /\ r.status = 200 /\ ~r.upnpError}

NextShow ==
    \/ Tick
    \/ BeginDisplayJPEG(1, MaxShowCalls, "DisplayJPEG", TheTV, StorePayloadAt(counter + 1))
    \/ SendSetURI(1, ShowResponses)
    \/ SendPlay(1, ShowResponses)

SpecShow == Init /\ [][NextShow]_vars

----------------------------------------------------------------------------
\* Discover (discovery.go:27-92)

\* lines 28-47: the socket is opened, the read deadline set and the search
\* sent, or Discover returns nil and the error
DiscoverStart(res) ==
    /\ dpc = "start"
    /\ IF res = Nil
       THEN dpc' = "select" /\ ret' = ret
       ELSE dpc' = "done" /\ ret' = [tvs |-> << >>, err |-> res]
    /\ UNCHANGED <<serverVars, storeVars, rendVars, ctxDone, seen, tvs, cur, sock,
                   expired, nArrived, lastRead, events, getVars, pureVars, otherPlayingTVs>>

\* Discover is in its collection loop
Collecting == dpc \in {"select", "read", "fetch"}

\* a response arrives at the socket
Arrive(d) ==
    /\ Collecting
    /\ ~expired
    /\ nArrived < MaxDatagrams
    /\ sock' = Append(sock, d)
    /\ nArrived' = nArrived + 1
    /\ UNCHANGED <<serverVars, storeVars, rendVars, dpc, ctxDone, seen, tvs, cur, ret,
                   expired, lastRead, events, getVars, pureVars, otherPlayingTVs>>

\* the read deadline of line 41 passes
Expire ==
    /\ Collecting
    /\ ~expired
    /\ expired' = TRUE
    /\ UNCHANGED <<serverVars, storeVars, rendVars, dpc, ctxDone, seen, tvs, cur, ret,
                   sock, nArrived, lastRead, events, getVars, pureVars, otherPlayingTVs>>

\* the caller cancels the context while Discover collects
Cancel ==
    /\ Collecting
    /\ ~ctxDone
    /\ ctxDone' = TRUE
    /\ UNCHANGED <<serverVars, storeVars, rendVars, dpc, seen, tvs, cur, ret, sock,
                   expired, nArrived, lastRead, events, getVars, pureVars, otherPlayingTVs>>

\* lines 55-59: the select at the top of the loop
LoopTop ==
    /\ dpc = "select"
    /\ IF ctxDone
       THEN dpc' = "done" /\ ret' = [tvs |-> tvs, err |-> CtxErr]
       ELSE dpc' = "read" /\ ret' = ret
    /\ UNCHANGED <<serverVars, storeVars, rendVars, ctxDone, seen, tvs, cur, sock,
                   expired, nArrived, lastRead, events, getVars, pureVars, otherPlayingTVs>>

\* a faulty socket, whose reads have no deadline
TimedOutNever(deadlinePassed) == FALSE
\* line 41: with the read deadline set, a read fails with a timeout once the
\* deadline has passed
TimedOut(deadlinePassed) == deadlinePassed

\* lines 61-68 and 91: ReadFromUDP fails, with a timeout once the deadline
\* has passed, whatever the socket holds, or with another error; the loop
\* is left and Discover returns tvs and nil
ReadFails(kind) ==
    /\ dpc = "read"
    /\ kind = "timeout" => TimedOut(expired)
    /\ lastRead' = kind
    /\ dpc' = "done"
    /\ ret' = [tvs |-> tvs, err |-> AfterLoopErr(kind)]
    /\ UNCHANGED <<serverVars, storeVars, rendVars, ctxDone, seen, tvs, cur, sock,
                   expired, nArrived, events, getVars, pureVars, otherPlayingTVs>>

\* lines 61-78: ReadFromUDP returns the next datagram, parseSSDP, the two
\* continues, and the mark in seen
Read ==
    /\ dpc = "read"
    /\ ~expired
    /\ sock # << >>
    /\ LET d == Head(sock)
           resp == ParseSSDP(d)
           ev(what) == [d |-> d.name, loc |-> resp.Location, outcome |-> what,
                        behind |-> Len(Tail(sock))]
       IN  /\ sock' = Tail(sock)
           /\ lastRead' = "datagram"
           /\ IF resp.Location = ""
              THEN /\ events' = Append(events, ev("no location"))
                   /\ dpc' = "select"
                   /\ UNCHANGED <<seen, cur, getVars, pureVars, otherPlayingTVs>>
              ELSE IF resp.Location \in seen
              THEN /\ events' = Append(events, ev("seen"))
                   /\ dpc' = "select"
                   /\ UNCHANGED <<seen, cur, getVars, pureVars, otherPlayingTVs>>
              ELSE /\ events' = Append(events, ev("fetching"))
                   /\ seen' = MarkSeen(seen, resp.Location)
                   /\ cur' = resp.Location
                   /\ dpc' = "fetch"
    /\ UNCHANGED <<serverVars, storeVars, rendVars, ctxDone, tvs, ret, expired, nArrived,
                   getVars, pureVars, otherPlayingTVs>>

\* a faulty Discover, which puts a new device in front of the list
FetchPrepend(res) ==
    /\ dpc = "fetch"
    /\ ctxDone => res.failed
    /\ LET r == FetchedFrom[cur][res]
       IN  /\ tvs' = IF r.err # Nil THEN tvs ELSE << r.tv >> \o tvs
           /\ events' = [events EXCEPT ![Len(events)].outcome =
                            IF r.err # Nil THEN r.err ELSE "added"]
    /\ dpc' = "select"
    /\ cur' = ""
    /\ UNCHANGED <<serverVars, storeVars, rendVars, ctxDone, seen, ret, sock, expired,
                   nArrived, lastRead, getVars, pureVars, otherPlayingTVs>>
\* lines 80-88: fetchTVInfo returns, which it does with an error when the
\* context was cancelled before the request; continue or append
Fetch(res) ==
    /\ dpc = "fetch"
    /\ ctxDone => res.failed
    /\ LET r == FetchedFrom[cur][res]
       IN  /\ tvs' = IF r.err # Nil THEN tvs ELSE Append(tvs, r.tv)
           /\ events' = [events EXCEPT ![Len(events)].outcome =
                            IF r.err # Nil THEN r.err ELSE "added"]
    /\ dpc' = "select"
    /\ cur' = ""
    /\ UNCHANGED <<serverVars, storeVars, rendVars, ctxDone, seen, ret, sock, expired,
                   nArrived, lastRead, getVars, pureVars, otherPlayingTVs>>

NextDiscover ==
    \/ \E res \in SetupResults : DiscoverStart(res)
    \/ \E d \in Datagrams : Arrive(d)
    \/ Expire
    \/ Cancel
    \/ LoopTop
    \/ \E kind \in {"timeout", "other"} : ReadFails(kind)
    \/ Read
    \/ \E res \in HTTPResults : Fetch(res)

SpecDiscover == Init /\ [][NextDiscover]_vars

\* SpecDiscoverFair: the same pass where the call is made, time passes and
\* the goroutine runs. The deadline of line 41 is a point in time, which
\* comes (Expire); a read that can return a datagram or the timeout does;
\* fetchTVInfo returns, its client having a timeout of 5 seconds (line 142)
\* and its request the context. Nothing is assumed of the network: no
\* datagram need arrive, no read need fail for another reason, and the
\* caller need not cancel.
DiscoverFairness ==
    /\ WF_vars(DiscoverStart(Nil))
    /\ WF_vars(Expire)
    /\ WF_vars(LoopTop)
    /\ WF_vars(Read)
    /\ WF_vars(ReadFails("timeout"))
    /\ WF_vars(\E res \in HTTPResults : Fetch(res))

SpecDiscoverFair == SpecDiscover /\ DiscoverFairness

----------------------------------------------------------------------------
\* Functions without state, called once on each of their inputs (SpecPure)

\* the inputs of parseDeviceDescription: the body and the location
ServiceTypes == {AVTransport1, RenderingControl1, "urn:schemas-upnp-org:service:avtransport:1"}
ControlURLs ==
    {"", "/upnp/control/AVTransport1", "ctl", "http://192.168.1.20:9197/ctl",
     "httpapi/AVTransport/control", "//ctl"}
URLBases == {"", "http://192.168.1.20:9197", "http://192.168.1.20:9197/"}
Services == {Service(t, c) : t \in ServiceTypes, c \in ControlURLs}
ServiceLists ==
    {<< >>} \cup {<<a>> : a \in Services} \cup {<<a, b>> : a \in Services, b \in Services}
Descriptions ==
    {Garbage} \cup {Description(b, "Smart TV", l) : b \in URLBases, l \in ServiceLists}
DescLocations == {Loc1, "http://192.168.1.22/desc.xml", "http://bad host/desc.xml"}
ParseInputs ==
    {[fn |-> "parseDeviceDescription", desc |-> d, loc |-> l] :
        d \in Descriptions, l \in DescLocations}

\* the inputs of setAVTransportURIForVideo: the URI and the title
VideoURIs ==
    {"https://example.com/stream.m3u8", "https://example.com/stream?format=m3u8&token=abc",
     "https://example.com/hls.m3u8?token=abc", "https://example.com/m3u8/video.ts",
     "https://example.com/stream.M3U8", "https://example.com/stream.ts",
     "https://example.com/video", "https://example.com/list.m3u", ""}
VideoTitles == {"", "Test", "My Test Stream", "Tom & Jerry", "Jerry's <live> \"show\""}
VideoInputs ==
    {[fn |-> "setAVTransportURIForVideo", uri |-> u, title |-> t] :
        u \in VideoURIs, t \in VideoTitles}

\* the inputs of sendSOAP: what client.Do returns for the POST
SOAPStatuses == {200, 201, 204, 301, 400, 401, 404, 412, 500, 503}
SOAPBodies ==
    {"",
     "<s:Envelope><s:Body><u:PlayResponse/></s:Body></s:Envelope>",
     "<s:Envelope><s:Body><s:Fault><detail><UPnPError><errorCode>701</errorCode></UPnPError></detail></s:Fault></s:Body></s:Envelope>",
     "<s:Envelope><s:Body><upnperror/></s:Body></s:Envelope>",
     "UPnPError 701"}
SOAPInputs ==
    {[fn |-> "sendSOAP", failed |-> f, status |-> st, body |-> b] :
        f \in BOOLEAN, st \in SOAPStatuses, b \in SOAPBodies}

\* the inputs of setAVTransportURI and setNextAVTransportURI: the URI
ImageURIs ==
    {"http://192.168.1.10:8080/img_1_0.jpg", "http://192.168.1.10:8080/stream.jpg",
     "http://cam.local/snap.jpg?w=640&h=480", "http://cam.local/it's.jpg",
     "http://cam.local/a</CurrentURI><x>.jpg", ""}
ImageInputs ==
    {[fn |-> f, uri |-> u] :
        f \in {"setAVTransportURI", "setNextAVTransportURI"}, u \in ImageURIs}

PureInputs == ParseInputs \cup VideoInputs \cup SOAPInputs \cup ImageInputs

InitPure == InitProgram /\ fin \in PureInputs /\ fout = Pending

\* the function called returns
Return(v) ==
    /\ ~fout.done
    /\ fout' = [done |-> TRUE, val |-> v]
    /\ UNCHANGED <<serverVars, storeVars, rendVars, discVars, getVars, fin, otherPlayingTVs>>

CallParseDeviceDescription ==
    /\ fin.fn = "parseDeviceDescription"
    /\ Return(ParseDeviceDescription(fin.desc, fin.loc))

\* setAVTransportURIForVideo, up to the request it hands to sendSOAP
CallSetAVTransportURIForVideo ==
    /\ fin.fn = "setAVTransportURIForVideo"
    /\ Return(SetVideoURIRequest(fin.uri, fin.title)
                 @@ [envelope |-> VideoEnvelope(fin.uri, fin.title)])

\* setAVTransportURI, up to the request it hands to sendSOAP
CallSetAVTransportURI ==
    /\ fin.fn = "setAVTransportURI"
    /\ Return(SetURIRequest(fin.uri) @@ [envelope |-> ImageEnvelope(fin.uri)])

\* setNextAVTransportURI, up to the request it hands to sendSOAP
CallSetNextAVTransportURI ==
    /\ fin.fn = "setNextAVTransportURI"
    /\ Return([SetURIRequest(fin.uri) EXCEPT !.action = "SetNextAVTransportURI"]
                 @@ [envelope |-> NextEnvelope(fin.uri)])

\* sendSOAP, from the return of client.Do on
CallSendSOAP ==
    /\ fin.fn = "sendSOAP"
    /\ Return(SendSOAP(SOAPResponse(fin.failed, fin.status, fin.body)))

NextPure ==
    \/ CallParseDeviceDescription
    \/ CallSetAVTransportURIForVideo
    \/ CallSetAVTransportURI
    \/ CallSetNextAVTransportURI
    \/ CallSendSOAP

SpecPure == InitPure /\ [][NextPure]_vars

----------------------------------------------------------------------------
\* Claims about ImageServer.Store

\* C1: after every Store call, in any sequence of sequential or concurrent
\* Store calls on one server, at most 10 entries are resident.
C1_AtMostTenResident == Cardinality(DOMAIN images) <= 10

\* C6: any two Store calls on one server return distinct URLs, whether or
\* not their payloads are byte-identical: the URLs returned so far are as
\* many as the calls that returned, and a call in flight holds a path no
\* other call holds or has returned.
C6_DistinctURLs ==
    /\ Cardinality(returned) = nReturned
    /\ \A t \in StoreCallers :
         storeTh[t].pc = "lock" =>
            /\ StoreURL(storeTh[t].path) \notin returned
            /\ \A u \in StoreCallers \ {t} :
                  storeTh[u].pc = "lock" => storeTh[u].path # storeTh[t].path

\* two calls with byte-identical payloads have returned, and two more with
\* the same payload are in flight at the same clock value
C6_Witness ==
    /\ nReturned >= 2
    /\ \E p, q \in DOMAIN images : p # q /\ images[p] = images[q]
    /\ \A t \in StoreCallers :
         /\ storeTh[t].pc = "lock"
         /\ storeTh[t].path[3] = now
         /\ \E p \in DOMAIN images : images[p] = storeTh[t].data

\* C7: once a Store has evicted an entry, a GET on its path returns 404 in
\* every later state.
C7_EvictedStays404 ==
    \A p \in evicted : HandleImage(images, p).status = 404

\* an entry was evicted and a later Store, begun after the eviction, has
\* inserted its own entry
C7_Witness ==
    \E p \in evicted : \E q \in DOMAIN images :
        /\ q[2] > Capacity + 2
        /\ HandleImage(images, p).status = 404
        /\ HandleImage(images, q).status = 200

----------------------------------------------------------------------------
\* Claims about the Renderer

\* the SOAP requests a call has sent, in order
RECURSIVE Requests(_)
Requests(trace) ==
    IF trace = << >> THEN << >>
    ELSE IF Head(trace).step = "SOAP"
         THEN << Head(trace).req >> \o Requests(Tail(trace))
         ELSE Requests(Tail(trace))

\* the set-URI and play pair against the stream URL
StreamPair == << SetURIRequest(StreamURL), PlayRequest >>

\* a DisplayJPEGStream call that returned success
OkPush(c) == c.op = "DisplayJPEGStream" /\ c.err = NoErr

\* C2: for one Renderer and one device, calls made one after another: two
\* consecutive successful DisplayJPEGStream pushes, the first on a fresh
\* Renderer or right after a Stop, send exactly one SetAVTransportURI and
\* Play pair between them, and a successful push right after a Stop sends a
\* SetAVTransportURI for the stream URL and a Play.
C2_OnePairUntilStop ==
    \A i \in 1..(Len(hist) - 1) :
       /\ ( /\ OkPush(hist[i]) /\ OkPush(hist[i + 1])
            /\ (i = 1 \/ hist[i - 1].op = "Stop") )
          => Requests(hist[i].trace) \o Requests(hist[i + 1].trace) = StreamPair
       /\ (hist[i].op = "Stop" /\ OkPush(hist[i + 1]))
          => Requests(hist[i + 1].trace) = StreamPair

\* a push, a Stop, and two more pushes have returned, all successful
C2_Witness ==
    /\ Len(hist) = 4
    /\ OkPush(hist[1])
    /\ hist[2].op = "Stop" /\ hist[2].err = NoErr
    /\ OkPush(hist[3])
    /\ OkPush(hist[4])
    /\ Requests(hist[4].trace) = << >>

\* C3: every public operation holds r.mu at each of its steps (a Store or an
\* UpdateLatestFrame on the image server, a SOAP request sent), and no call
\* takes a step between two steps of another call.
C3_StepsUnderLock ==
    /\ [](~interleaved)
    /\ [][\A t \in Callers :
            (th'[t].trace # th[t].trace /\ th'[t].trace # << >>)
               => (rmu = t \/ rmu' = t)]_vars

\* every SOAP request of call c was answered with status 200
Answered200(c) ==
    \A i \in 1..Len(c.trace) : c.trace[i].step = "SOAP" => c.trace[i].status = 200

\* every SOAP request of call c succeeded: status 200 and no <UPnPError
AllSucceeded(c) ==
    \A i \in 1..Len(c.trace) : c.trace[i].step = "SOAP" => c.trace[i].res = Nil

OK200 == [failed |-> FALSE, status |-> 200, upnpError |-> FALSE]

\* one Store, one SetAVTransportURI for the URL the Store returned, one Play,
\* in this order, and success
StoredSetPlayed(c) ==
    /\ c.trace = << ServerStep("Store", c.url),
                    SOAPStep(SetURIRequest(c.url), OK200),
                    SOAPStep(PlayRequest, OK200) >>
    /\ c.url \in returned
    /\ c.err = NoErr

\* C4, as claimed: a DisplayJPEG or Display call whose SOAP requests are all
\* answered 200 performs one Store, one SetAVTransportURI for the stored URL
\* and one Play, in this order, and returns success.
C4_AsClaimed ==
    \A i \in 1..Len(hist) :
       (hist[i].op \in {"DisplayJPEG", "Display"} /\ Answered200(hist[i]))
          => StoredSetPlayed(hist[i])

\* C4, amended: a DisplayJPEG call, or a Display call whose image encodes to
\* JPEG, whose SOAP requests are all answered 200 with no <UPnPError element
\* performs one Store, one SetAVTransportURI for the stored URL and one
\* Play, in this order, and returns success.
C4_StoreSetURIPlay ==
    \A i \in 1..Len(hist) :
       ( /\ hist[i].op \in {"DisplayJPEG", "Display"}
         /\ hist[i].err.step # "encode JPEG"
         /\ AllSucceeded(hist[i]) )
          => StoredSetPlayed(hist[i])

\* a DisplayJPEG call and a Display call have both returned success
C4_Witness ==
    /\ Len(hist) = 2
    /\ {hist[1].op, hist[2].op} = {"DisplayJPEG", "Display"}
    /\ \A i \in 1..2 : AllSucceeded(hist[i]) /\ Len(hist[i].trace) = 3

\* a set-URI request
IsSetURI(s) == s.step = "SOAP" /\ s.req.action = "SetAVTransportURI"

\* C5: in DisplayJPEG, Display, a first-push DisplayJPEGStream and
\* DisplayHLS, a failed SetAVTransportURI (no response, a status other than
\* 200, a <UPnPError body) is the last step of the call: the call has
\* returned an error and has sent no Play.
C5_NoPlayAfterFailedSetURI ==
    \A t \in Callers : \A i \in 1..Len(th[t].trace) :
       (IsSetURI(th[t].trace[i]) /\ th[t].trace[i].res # Nil)
          => /\ i = Len(th[t].trace)
             /\ th[t].pc = "done"
             /\ th[t].err = WrapErr(SetURIErr(th[t].op), th[t].trace[i].res)
             /\ rmu # t

\* a DisplayJPEGStream first push whose set-URI got a <UPnPError body and a
\* DisplayHLS whose set-URI got status 500 have both returned
C5_Witness ==
    /\ Len(hist) = 2
    /\ {hist[1].op, hist[2].op} = {"DisplayJPEGStream", "DisplayHLS"}
    /\ \A i \in 1..2 :
          /\ IsSetURI(hist[i].trace[Len(hist[i].trace)])
          /\ hist[i].err # NoErr
    /\ \E i \in 1..2 : hist[i].trace[Len(hist[i].trace)].res = "UPnP error"
    /\ \E i \in 1..2 : hist[i].trace[Len(hist[i].trace)].status = 500

----------------------------------------------------------------------------
\* Claims about Discover

\* the outcomes of a description fetch that failed
FetchFailures ==
    {"transport", "HTTP", "parse device description", "no AVTransport service found"}

\* C8: when the context is cancelled during the collection loop, Discover
\* returns the devices accumulated so far together with the cancellation
\* error.
C8_CancelReturnsCtxErr ==
    (dpc = "done" /\ ctxDone) => (ret.err = CtxErr /\ ret.tvs = tvs)

\* C9: a response whose description fetch fails does not end the pass: the
\* responses the socket already held when that response was read, received
\* before the deadline, are still processed before Discover returns on the
\* deadline.
C9_FailedFetchDoesNotEndPass ==
    (/\ dpc = "done"
     /\ ~ctxDone
     /\ lastRead = "timeout"
     /\ events # << >>
     /\ events[Len(events)].outcome \in FetchFailures)
        => events[Len(events)].behind = 0

\* C10: in one pass each LOCATION value is fetched at most once, also after
\* a failed fetch, and the list holds at most one device per LOCATION.
C10_OneFetchPerLocation ==
    \A loc \in Locations :
       /\ Cardinality({i \in DOMAIN events :
             events[i].loc = loc /\ events[i].outcome \notin {"no location", "seen"}}) <= 1
       /\ Cardinality({i \in DOMAIN tvs : tvs[i] = DeviceAt(loc)}) <= 1

\* Discover has returned after a response repeated a LOCATION whose fetch
\* had failed, and was skipped
C10_Witness ==
    /\ dpc = "done"
    /\ \E i, j \in DOMAIN events :
          /\ i < j
          /\ events[i].loc = events[j].loc
          /\ events[i].outcome \in FetchFailures
          /\ events[j].outcome = "seen"

\* the errors of lines 28-47; the socket is not open after the first two
SocketNotOpened == {"resolve SSDP address", "listen UDP"}
SetupErrors == SetupResults \ {Nil}

\* C11, as claimed: apart from cancellation, Discover returns an error only
\* when the discovery socket could not be opened.
C11_AsClaimed ==
    (dpc = "done" /\ ret.err \notin {Nil, CtxErr}) => ret.err \in SocketNotOpened

\* C11, amended: apart from cancellation, Discover returns an error only
\* when the SSDP address cannot be resolved, the socket cannot be opened or
\* the search cannot be sent, before any response is read; once the search
\* is sent, a failed read, a response without LOCATION and a failed
\* description fetch yield the accumulated list and no error.
C11_ErrorsOnlyFromSetup ==
    dpc = "done" =>
       \/ ret.err = Nil /\ ret.tvs = tvs
       \/ ret.err = CtxErr /\ ctxDone /\ ret.tvs = tvs
       \/ /\ ret.err \in SetupErrors
          /\ ret.tvs = << >>
          /\ lastRead = "none" /\ events = << >> /\ nArrived = 0 /\ ~ctxDone

\* Discover has returned, not cancelled, after a response without LOCATION,
\* a description fetch that failed and a read that failed other than by the
\* timeout
C11_Witness ==
    /\ dpc = "done"
    /\ ~ctxDone
    /\ lastRead = "other"
    /\ \E i, j \in DOMAIN events :
          /\ events[i].outcome = "no location"
          /\ events[j].outcome \in FetchFailures
    /\ ret.err = Nil

----------------------------------------------------------------------------
\* Claims about parseDeviceDescription

\* parseDeviceDescription has returned
Parsed == fin.fn = "parseDeviceDescription" /\ fout.done

\* the positions of the services whose type contains "AVTransport"
AVTServices(desc) ==
    {i \in DOMAIN desc.ServiceList : Contains(desc.ServiceList[i].ServiceType, "AVTransport")}

\* the first of them
FirstAVT(desc) ==
    desc.ServiceList[CHOOSE i \in AVTServices(desc) : \A j \in AVTServices(desc) : i <= j]

SucceedsWithControlURL == fout.val.err = Nil /\ fout.val.tv.ControlURL # ""
FailsNoAVTransport == fout.val.err = "no AVTransport service found"

\* C12, as claimed: for every well-formed description with at least one
\* service whose type contains "AVTransport", parseDeviceDescription
\* succeeds with a non-empty ControlURL; for every description with no such
\* service it fails with the no-AVTransport-service error.
C12_AsClaimed ==
    (Parsed /\ fin.desc.decodes) =>
       IF AVTServices(fin.desc) # {} THEN SucceedsWithControlURL ELSE FailsNoAVTransport

\* C12, amended: for every well-formed description and every location that
\* parses as a URL, parseDeviceDescription succeeds with a non-empty
\* ControlURL when the first service whose type contains "AVTransport" has
\* a non-empty controlURL, and fails with the no-AVTransport-service error
\* when there is no such service or the first one has an empty controlURL.
C12_FirstAVTransportDecides ==
    (Parsed /\ fin.desc.decodes /\ ParseURL(fin.loc).ok) =>
       IF AVTServices(fin.desc) # {} /\ FirstAVT(fin.desc).ControlURL # ""
       THEN SucceedsWithControlURL
       ELSE FailsNoAVTransport

\* a description whose second service is the AVTransport service, with a
\* relative controlURL, has been parsed to a TV
C12_Witness ==
    /\ Parsed
    /\ fin.desc.decodes
    /\ Len(fin.desc.ServiceList) = 2
    /\ AVTServices(fin.desc) = {2}
    /\ fin.desc.ServiceList[2].ControlURL = "ctl"
    /\ fout.val.err = Nil
    /\ fout.val.tv.ControlURL = "http://192.168.1.20:9197/ctl"

\* p begins with a scheme: letters, then "://"
IsAbsolute(p) ==
    LET i == Index(p, "://")
    IN  i > 1 /\ ~Contains(SubSeq(p, 1, i - 1), "/")

\* s without the slashes at its end, and without those at its start
RECURSIVE TrimRightSlashes(_)
TrimRightSlashes(s) ==
    IF HasSuffix(s, "/") THEN TrimRightSlashes(SubSeq(s, 1, Len(s) - 1)) ELSE s
RECURSIVE TrimLeftSlashes(_)
TrimLeftSlashes(s) ==
    IF HasPrefix(s, "/") THEN TrimLeftSlashes(SubSeq(s, 2, Len(s))) ELSE s

\* the base URL of the description: URLBase, or scheme://host of the location
DeclaredBase(desc, loc) ==
    IF desc.URLBase # "" THEN desc.URLBase
    ELSE ParseURL(loc).Scheme \o "://" \o ParseURL(loc).Host

\* C22: when parseDeviceDescription succeeds, a control path that begins
\* with a scheme is the control endpoint unchanged, and any other control
\* path is appended to the base URL with exactly one "/" between the two.
C22_ControlEndpoint ==
    (Parsed /\ fout.val.err = Nil) =>
       LET path == FirstAVT(fin.desc).ControlURL
       IN  fout.val.tv.ControlURL =
              IF IsAbsolute(path) THEN path
              ELSE TrimRightSlashes(DeclaredBase(fin.desc, fin.loc)) \o "/"
                      \o TrimLeftSlashes(path)

----------------------------------------------------------------------------
\* Claims about setAVTransportURIForVideo

VideoRequestBuilt == fin.fn = "setAVTransportURIForVideo" /\ fout.done

\* C13, as claimed: the content type is application/x-mpegURL exactly for
\* the URIs that end in or contain ".m3u8", and video/mp2t for all others.
C13_AsClaimed ==
    VideoRequestBuilt =>
       fout.val.mime = IF HasSuffix(fin.uri, ".m3u8") \/ Contains(fin.uri, ".m3u8")
                       THEN "application/x-mpegURL" ELSE "video/mp2t"

\* C13, amended: the content type is application/x-mpegURL exactly for the
\* URIs that contain "m3u8", with or without a dot before it, in this
\* case, and video/mp2t for all others.
C13_ContentTypeByM3U8 ==
    VideoRequestBuilt =>
       fout.val.mime = IF Contains(fin.uri, "m3u8")
                       THEN "application/x-mpegURL" ELSE "video/mp2t"

\* the request for a URI that names m3u8 only in its query has been built,
\* with application/x-mpegURL
C13_Witness ==
    /\ VideoRequestBuilt
    /\ fin.uri = "https://example.com/stream?format=m3u8&token=abc"
    /\ fout.val.mime = "application/x-mpegURL"

----------------------------------------------------------------------------
\* Claims about sendSOAP

\* sendSOAP has returned after a response was received
SOAPAnswered == fin.fn = "sendSOAP" /\ fout.done /\ ~fin.failed

\* C14: a SOAP action returns an error if the status is not 200, returns an
\* error if the status is 200 and the body contains "<UPnPError", and
\* returns success in every other case in which a response was received.
C14_SOAPResult ==
    SOAPAnswered =>
       /\ fin.status # 200 => fout.val = "SOAP error: HTTP"
       /\ (fin.status = 200 /\ Contains(fin.body, "<UPnPError")) => fout.val = "UPnP error"
       /\ (fin.status = 200 /\ ~Contains(fin.body, "<UPnPError")) => fout.val = Nil

\* a 200 response with a UPnP fault in its body has been turned into the
\* UPnP error
C14_Witness ==
    /\ SOAPAnswered
    /\ fin.status = 200
    /\ Contains(fin.body, "<UPnPError><errorCode>701")
    /\ fout.val = "UPnP error"

----------------------------------------------------------------------------
\* Claims about the HTTP side of the image server

\* this step is the answer to a GET
Answered == got'.n # got.n

\* this step is the answer to a GET of exactly "/stream.jpg"
StreamAnswered == Answered /\ got'.req = Request("/", StreamPath)

\* the payload of the most recent push
LastPushed == pushLog[Len(pushLog)]

\* C15 as stated: a GET of /stream.jpg returns 404 if and only if no frame
\* has ever been pushed, and after any push it returns the payload of the
\* most recent push.
C15_AsClaimed ==
    [][StreamAnswered =>
          /\ got'.status = 404 <=> pushLog = << >>
          /\ pushLog # << >> => got'.status = 200 /\ got'.body = LastPushed]_vars

\* C15: a GET of /stream.jpg returns 404 if and only if no frame has ever
\* been pushed or the most recent push handed over a nil payload; in every
\* other case it returns 200 with the payload of the most recent push.
C15_LatestFrameOr404 ==
    [][StreamAnswered =>
          IF pushLog = << >> \/ LastPushed = Nil
          THEN got'.status = 404
          ELSE got'.status = 200 /\ got'.body = LastPushed]_vars

\* /stream.jpg has been answered with the second of two different frames
C15_Witness ==
    /\ got.req = Request("/", StreamPath)
    /\ got.status = 200
    /\ Len(pushLog) = 2
    /\ pushLog[1] = "frameA"
    /\ got.body = "frameB"

\* this step is a push into the streaming slot
Pushed == pushLog' # pushLog

\* this step belongs to a Store call
StoreStepped == storeTh' # storeTh

\* C16: UpdateLatestFrame changes only the streaming slot: the stored
\* entries, the store counter and the URLs handed out are the same after it
\* as before (the stream URL is the fixed StreamURL); and no step of a Store
\* call, evicting or not, changes the content of the streaming slot.
C16_SlotAndStoreApart ==
    [][/\ Pushed =>
            /\ latestFrame' = pushLog'[Len(pushLog')]
            /\ images' = images
            /\ counter' = counter
            /\ returned' = returned
       /\ StoreStepped => latestFrame' = latestFrame]_vars

\* a frame has been pushed, a Store call has evicted an entry and all Store
\* calls have returned, and the slot holds the pushed frame
C16_Witness ==
    /\ pushLog # << >>
    /\ evicted # {}
    /\ nReturned = MaxServerStores
    /\ latestFrame = LastPushed
    /\ latestFrame = "frameB"

\* this step is the answer to a GET of a path other than "/stream.jpg"
ImageAnswered == Answered /\ got'.req # Request("/", StreamPath)

\* the path of the request is, character for character, the key of an entry
ExactKey(req, m) == req.lead = "/" /\ req.rest \in DOMAIN m

\* C18 as stated: a GET of a path other than /stream.jpg returns the stored
\* payload when the path exactly equals the key of a resident entry, and 404
\* for every other path.
C18_AsClaimed ==
    [][ImageAnswered =>
          IF ExactKey(got'.req, images)
          THEN got'.status = 200 /\ got'.body = images[got'.req.rest]
          ELSE got'.status = 404]_vars

\* C18: a GET of a path other than /stream.jpg returns the stored payload
\* when the path exactly equals the key of a resident entry; a path that is
\* not in canonical form is answered with a 301 redirect, whatever is stored;
\* every other path is answered with 404.
C18_ExactKeyRedirectOr404 ==
    [][ImageAnswered =>
          IF ExactKey(got'.req, images)
          THEN got'.status = 200 /\ got'.body = images[got'.req.rest]
          ELSE IF got'.req.lead # "/"
          THEN got'.status = 301
          ELSE got'.status = 404]_vars

\* after evictions the GET of a resident key has been answered with the
\* payload stored under it
C18_Witness ==
    /\ evicted # {}
    /\ ExactKey(got.req, images)
    /\ got.req.rest[2] > Capacity
    /\ got.status = 200
    /\ got.body = images[got.req.rest]

----------------------------------------------------------------------------
\* Claims about DisplayHLS

\* this step is a step of a DisplayHLS call of caller t
HLSStep(t) ==
    /\ th'[t].op = "DisplayHLS"
    /\ th'[t].pc # th[t].pc \/ th'[t].trace # th[t].trace

\* the requests a DisplayHLS call c that has returned sent: one
\* SetAVTransportURI with the caller's URL, and after its success one Play
HLSRequests(c) ==
    /\ Len(c.trace) >= 1
    /\ \A i \in 1..Len(c.trace) : c.trace[i].step = "SOAP"
    /\ c.trace[1].req.action = "SetAVTransportURI"
    /\ c.trace[1].req.uri = c.arg.url
    /\ IF c.trace[1].res = Nil
       THEN Len(c.trace) = 2 /\ c.trace[2].req = PlayRequest
       ELSE Len(c.trace) = 1

\* C17: DisplayHLS sends one SetAVTransportURI carrying the caller's URL and,
\* when it succeeds, one Play after it; no step of the call touches the
\* media server or the session table: the stored entries, the counter, the
\* streaming slot and playingTVs are the same after each step as before.
C17_HLSBypassesServer ==
    [][\A t \in Callers :
         HLSStep(t) =>
            /\ images' = images
            /\ counter' = counter
            /\ latestFrame' = latestFrame
            /\ playingTVs' = playingTVs
            /\ \A i \in 1..Len(th'[t].trace) : th'[t].trace[i].step = "SOAP"
            /\ th'[t].pc = "done" => HLSRequests(th'[t])]_vars

\* a DisplayHLS call has returned with success after images were stored, a
\* frame pushed and the device marked playing, all of which are still there
C17_Witness ==
    /\ hist # << >>
    /\ hist[Len(hist)].op = "DisplayHLS"
    /\ hist[Len(hist)].err = NoErr
    /\ Len(hist[Len(hist)].trace) = 2
    /\ images # << >>
    /\ latestFrame # Nil
    /\ playingTVs # {}

\* C20: the video set-URI action carries the title "HLS Stream" whenever the
\* caller's title is empty, and the caller's title otherwise.
C20_DefaultTitle ==
    \A i \in 1..Len(hist) :
       hist[i].op = "DisplayHLS" =>
          /\ Len(hist[i].trace) >= 1
          /\ hist[i].trace[1].req.action = "SetAVTransportURI"
          /\ hist[i].trace[1].req.title =
                IF hist[i].arg.title = "" THEN "HLS Stream" ELSE hist[i].arg.title

\* two DisplayHLS calls have returned, one with an empty title, which went
\* out as "HLS Stream", and one with a title of the caller's
C20_Witness ==
    \E i, j \in 1..Len(hist) :
       /\ hist[i].op = "DisplayHLS" /\ hist[i].arg.title = ""
       /\ hist[i].trace[1].req.title = "HLS Stream"
       /\ hist[j].op = "DisplayHLS" /\ hist[j].arg.title = "My Test Stream"
       /\ hist[j].trace[1].req.title = "My Test Stream"

----------------------------------------------------------------------------
\* Claims about the propagation of control-protocol failures

SOAPActions == {"SetAVTransportURI", "Play", "Stop"}

\* the steps of call c that sent the SOAP action a
Sent(c, a) ==
    {i \in 1..Len(c.trace) : c.trace[i].step = "SOAP" /\ c.trace[i].req.action = a}

\* the steps of call c whose SOAP action failed
FailedSteps(c) ==
    {i \in 1..Len(c.trace) : c.trace[i].step = "SOAP" /\ c.trace[i].res # Nil}

\* C19: in any single Renderer operation each SOAP action
\* (SetAVTransportURI, Play, Stop) is sent at most once, and if an action
\* sent fails the operation returns an error, the one of that action.
C19_FailuresPropagateNoRetry ==
    \A t \in Callers :
       /\ \A a \in SOAPActions : Cardinality(Sent(th[t], a)) <= 1
       /\ \A i \in FailedSteps(th[t]) :
             /\ th[t].pc = "done"
             /\ th[t].err # NoErr
             /\ th[t].err.cause = th[t].trace[i].res

\* a DisplayJPEGStream whose SetAVTransportURI succeeded and whose Play was
\* answered with a UPnP error has returned that error
C19_Witness ==
    \E t \in Callers :
       /\ th[t].op = "DisplayJPEGStream"
       /\ th[t].pc = "done"
       /\ Cardinality(Sent(th[t], "SetAVTransportURI")) = 1
       /\ Cardinality(Sent(th[t], "Play")) = 1
       /\ th[t].err = [step |-> "play stream", cause |-> "UPnP error"]

----------------------------------------------------------------------------
\* Claims about the SOAP envelopes

\* one of the three set-URI functions has built its envelope
EnvelopeBuilt ==
    /\ fout.done
    /\ fin.fn \in {"setAVTransportURI", "setAVTransportURIForVideo", "setNextAVTransportURI"}

\* the element of the envelope that carries the URI
URIElement == IF fin.fn = "setNextAVTransportURI" THEN "NextURI" ELSE "CurrentURI"

\* what stands in s between the first open and the first close after it
Between(s, open, close) ==
    LET from == Index(s, open) + Len(open)
        rest == SubSeq(s, from, Len(s))
    IN  SubSeq(rest, 1, Index(rest, close) - 1)

\* the content of the element named name in the envelope built
Content(name) == Between(fout.val.envelope, "<" \o name \o ">", "</" \o name \o ">")

\* the five entities that stand for the XML metacharacters
Entities == {"&amp;", "&lt;", "&gt;", "&quot;", "&apos;"}

\* text holds an XML metacharacter that is not escaped: a "<", a ">", a
\* quote of either kind, or a "&" that does not begin an entity
Unescaped(text) ==
    \E i \in 1..Len(text) :
       LET c == SubSeq(text, i, i)
       IN  \/ c \in {"<", ">", "\"", "'"}
           \/ /\ c = "&"
              /\ \A e \in Entities :
                    i + Len(e) - 1 > Len(text) \/ SubSeq(text, i, i + Len(e) - 1) # e

\* C21: in the envelope setAVTransportURI, setAVTransportURIForVideo and
\* setNextAVTransportURI build, no XML metacharacter (& < > " ') stands
\* unescaped at a place where the caller's URI or title is embedded: not in
\* the URI element, and not in the metadata element.
C21_AllEmbedsEscaped ==
    EnvelopeBuilt =>
       /\ ~Unescaped(Content(URIElement))
       /\ ~Unescaped(Content(URIElement \o "MetaData"))

----------------------------------------------------------------------------
\* Claims about reads that race with writes

\* the payload handed to the Store call that made path
StoredUnder(path) == StorePayloadAt(path[2] - 1)

\* the payloads handed to UpdateLatestFrame so far
PushedSoFar == {pushLog[i] : i \in 1..Len(pushLog)}

\* C23: a GET of a stored path or of the stream path, whatever Store and
\* UpdateLatestFrame calls run beside it, is answered with 404 or with the
\* whole payload of one Store call for that path or of one UpdateLatestFrame
\* call, never with a part of a payload or a mix of two.
C23_WholePayloadOr404 ==
    got # NoResponse =>
       \/ got.status = 404 /\ got.body = Nil
       \/ /\ got.status = 200
          /\ IF got.req.rest = StreamPath THEN got.body \in PushedSoFar
             ELSE got.body = StoredUnder(got.req.rest)

\* a GET of the stream path has been answered with the frame that was in the
\* slot when the handler began, another frame having been pushed while the
\* handler was writing
C23_Witness ==
    /\ rd.pc = "done"
    /\ rd.req.rest = StreamPath
    /\ got.status = 200
    /\ rd.pushes0 = 1
    /\ Len(pushLog) = 2
    /\ pushLog[1] # pushLog[2]
    /\ got.body = pushLog[1]

----------------------------------------------------------------------------
\* Claims about the termination and the result of Discover

\* Discover has returned
Returned == dpc = "done"

\* C24: Discover always terminates: whatever responses arrive, none among
\* them, and whatever becomes of the description fetches, those that never
\* answer among them, Discover eventually returns.
C24_DiscoverTerminates == <>Returned

\* Discover has returned after the deadline, the context not cancelled, and
\* after a description fetch that got no answer
C24_Witness ==
    /\ Returned
    /\ expired
    /\ ~ctxDone
    /\ lastRead = "timeout"
    /\ \E i \in 1..Len(events) : events[i].outcome = "transport"

----------------------------------------------------------------------------
\* Claims about the session table

\* this step is a step of a call of caller t
CallStep(t) == th'[t].pc # th[t].pc \/ th'[t].trace # th[t].trace

\* the entries of the table playing under the keys other than key
Others(playing, key) == playing \ {key}

\* C25: the session table is kept per Renderer and keyed by ControlURL: a
\* step of a DisplayJPEGStream or a Stop for one device leaves the entry of
\* every device with another ControlURL as it was, on either Renderer; no
\* step of an operation on the first Renderer changes the table of the
\* second, and no operation on the second changes the table of the first.
C25_PerRendererPerDevice ==
    [][/\ \A t \in Callers :
            CallStep(t) =>
               /\ Others(playingTVs', th'[t].tv.ControlURL)
                     = Others(playingTVs, th'[t].tv.ControlURL)
               /\ otherPlayingTVs' = otherPlayingTVs
       /\ otherPlayingTVs' # otherPlayingTVs =>
            /\ playingTVs' = playingTVs
            /\ \E tv \in TVs : Others(otherPlayingTVs', tv.ControlURL)
                                  = Others(otherPlayingTVs, tv.ControlURL)]_vars

\* one device is playing on the first Renderer only and the other device on
\* the second only, after a Stop on the first Renderer
C25_Witness ==
    /\ playingTVs = {"http://192.168.1.20:9197/ctl"}
    /\ otherPlayingTVs = {"http://192.168.1.21:9197/ctl"}
    /\ hist # << >>
    /\ hist[Len(hist)].op = "Stop"

\* the last step of call c
LastStep(c) == c.trace[Len(c.trace)]

\* the SOAP actions a display operation sends
PairActions == {"SetAVTransportURI", "Play"}

\* caller t sends SetAVTransportURI or Play in this step
SendsOfPair(t) ==
    /\ Len(th'[t].trace) = Len(th[t].trace) + 1
    /\ LastStep(th'[t]).step = "SOAP"
    /\ LastStep(th'[t]).req.action \in PairActions

\* call c has sent its SetAVTransportURI and has yet to send its Play
MidPair(c) ==
    /\ c.pc # "done"
    /\ c.trace # << >>
    /\ LastStep(c).req.action = "SetAVTransportURI"

\* C26: of two concurrent calls among Display, DisplayJPEG, DisplayHLS and a
\* first-push DisplayJPEGStream on one Renderer, neither sends its
\* SetAVTransportURI or its Play between the SetAVTransportURI and the Play
\* of the other.
C26_PairsNotInterleaved ==
    [][\A t \in Callers, u \in Callers :
          t # u /\ SendsOfPair(t) => ~MidPair(th[u])]_vars

\* a first-push DisplayJPEGStream whose start waited for a DisplayJPEG or a
\* DisplayHLS begun before it returned; both sent SetAVTransportURI and Play
C26_Witness ==
    /\ Len(hist) = 2
    /\ hist[1].op \in {"DisplayJPEG", "DisplayHLS"}
    /\ hist[2].op = "DisplayJPEGStream"
    /\ hist[2].intr
    /\ \A i \in 1..2 : /\ LastStep(hist[i]).req.action = "Play"
                       /\ hist[i].trace[Len(hist[i].trace) - 1].req.action
                             = "SetAVTransportURI"

\* a DisplayJPEGStream call that returned an error
FailedPush(c) == c.op = "DisplayJPEGStream" /\ c.err # NoErr

\* the call of caller t returns in this step
Returns(t) == th'[t].pc = "done" /\ th[t].pc # "done"

\* hist[j] is the first DisplayJPEGStream for the device of hist[i] after it
NextPush(i, j) ==
    /\ i < j
    /\ hist[j].op = "DisplayJPEGStream"
    /\ hist[j].tv = hist[i].tv
    /\ \A k \in (i + 1)..(j - 1) :
          ~(hist[k].op = "DisplayJPEGStream" /\ hist[k].tv = hist[i].tv)

\* C27: for calls made one after another, an entry of r.playingTVs is set
\* only on the return of a DisplayJPEGStream whose SetAVTransportURI and Play
\* both succeeded; when a DisplayJPEGStream returns an error the entry of its
\* device is unset and the streaming slot holds its frame; and the next
\* DisplayJPEGStream for that device sends SetAVTransportURI for the stream
\* URL again, followed by Play once that request succeeded.
C27_PlayingOnlyAfterBoth ==
    /\ [][\A t \in Callers :
            /\ (playingTVs' # playingTVs /\ playingTVs \subseteq playingTVs') =>
                 \E u \in Callers :
                    /\ Returns(u)
                    /\ th'[u].op = "DisplayJPEGStream"
                    /\ playingTVs' = playingTVs \cup {th'[u].tv.ControlURL}
                    /\ Requests(th'[u].trace) = StreamPair
                    /\ AllSucceeded(th'[u])
            /\ (Returns(t) /\ FailedPush(th'[t])) =>
                 /\ th'[t].tv.ControlURL \notin playingTVs'
                 /\ latestFrame' = th'[t].data]_vars
    /\ [](\A i \in 1..Len(hist), j \in 1..Len(hist) :
            (FailedPush(hist[i]) /\ NextPush(i, j)) =>
               /\ Requests(hist[j].trace) # << >>
               /\ Requests(hist[j].trace)[1] = SetURIRequest(StreamURL)
               /\ hist[j].trace[2].res = Nil => Requests(hist[j].trace) = StreamPair)

\* a push whose Play failed, then a push that sent both again and set the entry
C27_Witness ==
    /\ Len(hist) = 2
    /\ FailedPush(hist[1])
    /\ Requests(hist[1].trace) = StreamPair
    /\ NextPush(1, 2)
    /\ Requests(hist[2].trace) = StreamPair
    /\ hist[2].err = NoErr
    /\ playingTVs = {hist[2].tv.ControlURL}
    /\ latestFrame = hist[2].data

\* a Stop call that has returned
StopCall(c) == c.op = "Stop" /\ c.pc = "done"

\* caller t begins a Stop in this step
BeginsStop(t) == th'[t].op = "Stop" /\ th'[t].pc = "stop" /\ th[t].pc # "stop"

\* C28: for calls made one after another, Stop deletes the entry of its
\* device before it sends anything, whether there was one or not; every Stop
\* that has returned sent one Stop action and nothing else, and on its
\* return the entry is absent, also when the Stop action failed.
C28_StopClearsAndSendsOnce ==
    /\ [][\A t \in Callers :
            /\ BeginsStop(t) =>
                 /\ playingTVs' = playingTVs \ {th'[t].tv.ControlURL}
                 /\ th'[t].trace = << >>
            /\ (Returns(t) /\ th'[t].op = "Stop") =>
                 th'[t].tv.ControlURL \notin playingTVs']_vars
    /\ [](\A i \in 1..Len(hist) :
            StopCall(hist[i]) =>
               /\ Len(hist[i].trace) = 1
               /\ Requests(hist[i].trace) = << StopRequest >>)

\* a Stop for a device without an entry whose Stop action failed, a push that
\* set the entry, and a Stop that removed it though its Stop action failed
C28_Witness ==
    /\ Len(hist) = 3
    /\ StopCall(hist[1]) /\ hist[1].err # NoErr
    /\ OkPush(hist[2]) /\ Requests(hist[2].trace) = StreamPair
    /\ StopCall(hist[3]) /\ hist[3].err # NoErr
    /\ playingTVs = {}

----------------------------------------------------------------------------
\* Claims about Store's cleanup

\* the id Store drew for the entry under path
IdOf(path) == path[2]

\* C29: Store's cleanup keeps the last images: no entry that was evicted is
\* newer than an entry that is resident.
C29_EvictsOldest ==
    \A e \in evicted, r \in DOMAIN images : IdOf(e) < IdOf(r)

----------------------------------------------------------------------------
\* Claims about the order of Discover's result

\* the LOCATION whose description decodes to device tv
LocationOf(tv) == CHOOSE loc \in Locations : DeviceAt(loc) = tv

\* the place, among the responses processed, of the first one whose
\* LOCATION is loc; 0 when there is none
FirstCarrying(loc) ==
    LET at == {i \in 1..Len(events) : events[i].loc = loc}
    IN  IF at = {} THEN 0 ELSE CHOOSE i \in at : \A j \in at : i <= j

\* the list Discover has returned, or has gathered so far
Result == IF Returned THEN ret.tvs ELSE tvs

\* C30: the list Discover returns, and gathers, is in the order the
\* responses were processed: every device in it has a response with its
\* LOCATION, and one device stands before another exactly when the first
\* response with its LOCATION was processed before the first with the other's.
C30_ResponseOrder ==
    \A i \in 1..Len(Result), j \in 1..Len(Result) :
       /\ FirstCarrying(LocationOf(Result[i])) > 0
       /\ i < j <=> FirstCarrying(LocationOf(Result[i]))
                       < FirstCarrying(LocationOf(Result[j]))

\* Discover returned two devices, the second responder's first response
\* having been processed after a repeated response of the first
C30_Witness ==
    /\ Returned
    /\ ret.tvs = << DeviceAt(Loc2), DeviceAt(Loc1) >>
    /\ Len(events) = 3
    /\ events[2].outcome = "seen"
    /\ FirstCarrying(Loc1) = 3

----------------------------------------------------------------------------
\* Claims about the session entry and what the device shows

\* the SetAVTransportURI requests the device answered without error, of the
\* calls for device tv among the first n that returned, in the order sent
RECURSIVE URIsSet(_, _)
URIsSet(tv, n) ==
    IF n = 0 THEN << >>
    ELSE URIsSet(tv, n - 1) \o
         (IF hist[n].tv = tv
          THEN SelectSeq(hist[n].trace,
                         LAMBDA e : /\ e.step = "SOAP"
                                    /\ e.req.action = "SetAVTransportURI"
                                    /\ e.res = Nil)
          ELSE << >>)

\* no Renderer operation is in progress
Quiet == \A t \in Callers : ~Busy(t)

\* C31: for calls made one after another, whenever no operation is in
\* progress and the entry of a device is set, the URI last set on that
\* device by this Renderer is the stream URL.
C31_EntryMeansStreamURI ==
    \A tv \in TVs :
       (Quiet /\ tv.ControlURL \in playingTVs) =>
          LET set == URIsSet(tv, Len(hist))
          IN  set # << >> /\ set[Len(set)].req.uri = StreamURL

\* the requests device tv answered without error, of the first n calls that
\* returned. A call returns in the step of its last request, so the last of
\* these is the last the device received from the calls that have returned.
RECURSIVE Received(_, _)
Received(tv, n) ==
    IF n = 0 THEN << >>
    ELSE Received(tv, n - 1) \o
         (IF hist[n].tv = tv
          THEN SelectSeq(hist[n].trace, LAMBDA e : e.step = "SOAP" /\ e.res = Nil)
          ELSE << >>)

\* C32: once the operations on a device have returned, among them a Stop and
\* a DisplayJPEGStream that ran at the same time, the entry of the device is
\* not set while Stop is the last action the device received.
C32_NoEntryAfterStop ==
    \A tv \in TVs :
       (Quiet /\ tv.ControlURL \in playingTVs) =>
          LET rcv == Received(tv, Len(hist))
          IN  rcv # << >> /\ rcv[Len(rcv)].req.action # "Stop"

----------------------------------------------------------------------------
\* Claims about the image DisplayJPEG hands to the device

\* what a GET of url on the Renderer's server is answered with
Resolve(url) ==
    ServeHTTP(ServerOf(images, counter, latestFrame), Request("/", URLPath(url)))

\* the Store of a DisplayJPEG call of caller t returns in this step
StoreReturns(t) ==
    /\ nStoreCalls' = nStoreCalls + 1
    /\ th'[t].trace = << ServerStep("Store", th'[t].url) >>
    /\ th'[t] # th[t]

\* a DisplayJPEG call of caller t sends its SetAVTransportURI in this step
SendsImageURI(t) ==
    /\ th[t].op \in {"DisplayJPEG", "Display"}
    /\ SendsOfPair(t)
    /\ LastStep(th'[t]).req.action = "SetAVTransportURI"

\* C33: the entry a Store inserts is resident when the Store returns and is
\* not the one its cleanup deleted; and when DisplayJPEG sends
\* SetAVTransportURI, the URI it sends is the URL its Store returned, and a
\* GET of it on the Renderer's server is answered 200 with the JPEG handed
\* to that call.
C33_SentURLResolves ==
    [][\A t \in Callers :
          /\ StoreReturns(t) =>
               /\ URLPath(th'[t].url) \in DOMAIN images'
               /\ images'[URLPath(th'[t].url)] = th'[t].data
               /\ URLPath(th'[t].url) \notin evicted'
          /\ SendsImageURI(t) =>
               /\ LastStep(th'[t]).req.uri = th[t].url
               /\ Resolve(th[t].url) = [status |-> 200, body |-> th[t].data]]_vars

\* the call whose Store ran the cleanup has sent its SetAVTransportURI
C33_Witness ==
    /\ evicted # {}
    /\ nStoreCalls = MaxShowCalls
    /\ th[1].op = "DisplayJPEG"
    /\ MidPair(th[1])
    /\ Resolve(th[1].url).body = StorePayloadAt(MaxShowCalls)

====
